---- MODULE Spec2Model ----
(***************************************************************************)
(* State-machine model of the mod lifecycle of dayz-server-manager-rs:     *)
(* ServerManager (src/src/server.rs) with its collaborators                *)
(* CollectionFetcher / SteamCollectionParser, the file system of the       *)
(* server install directory and the SteamCMD package cache.                *)
(*                                                                         *)
(* Strings are modelled as sequences of tokens, so that prefix tests,      *)
(* substring tests, lower-casing, trimming, splitting and joining are      *)
(* computed and not assumed:                                               *)
(*   a mod name          <<"A">>                                           *)
(*   a directory entry   <<"@", "A">>   (format!("@{name}"))               *)
(*   a file name         <<"k", "bikey">>  (stem and extension)            *)
(*   a URL / href        <<"steamcommunity.com", "filedetails", ...>>      *)
(***************************************************************************)
EXTENDS Integers, Sequences, FiniteSets, TLC

(***************************************************************************)
(* Bounds of the model.                                                    *)
(***************************************************************************)
\* longest individually configured mod list
MaxMods == 2
\* environment faults (I/O errors, download failures) injected per process
MaxFaults == 1
\* public ServerManager calls (install_or_update_mods, run_server) per process
MaxCalls == 2

(***************************************************************************)
(* Program constants.                                                      *)
(***************************************************************************)
DAYZ_GAME_APP_ID == 221100
DAYZ_SERVER_APP_ID == 223350
HTTP_OK == 200

SERVER_EXE == <<"DayZServer_x64", "exe">>
SERVER_KEYS == <<"keys">>
SERVER_CONFIG == <<"serverDZ", "cfg">>
SERVER_PROFILES == <<"profiles">>
RESERVED_KEY == <<"dayz", "bikey">>

(***************************************************************************)
(* Option<T> and Result<T>.                                                *)
(***************************************************************************)
None == [some |-> FALSE, val |-> <<>>]
Some(v) == [some |-> TRUE, val |-> v]

Ok(v) == [ok |-> TRUE, val |-> v, err |-> "none"]
Err(e) == [ok |-> FALSE, val |-> <<>>, err |-> e]

(***************************************************************************)
(* String helpers over token sequences.                                    *)
(***************************************************************************)
\* char::to_lowercase per token (str::to_lowercase)
LowerTok(t) ==
    CASE t = "DayZ" -> "dayz"
      [] t = "BIKEY" -> "bikey"
      [] t = "Bikey" -> "bikey"
      [] t = "K" -> "k"
      [] OTHER -> t

to_lowercase(s) == [i \in DOMAIN s |-> LowerTok(s[i])]

\* str::contains(pat) for a one-token pattern
Contains(s, tok) == \E i \in DOMAIN s : s[i] = tok

\* str::contains(pat) for a pattern of several tokens
ContainsSeq(s, pat) ==
    \E i \in 0..(Len(s) - Len(pat)) : \A j \in DOMAIN pat : s[i + j] = pat[j]

\* str::find(pat) for a one-token pattern: the first index, 0 when there is none
Find(s, tok) ==
    IF Contains(s, tok)
    THEN CHOOSE i \in DOMAIN s : s[i] = tok /\ \A j \in 1..(i - 1) : s[j] # tok
    ELSE 0

\* str::starts_with('@')
StartsWithAt(s) == Len(s) >= 1 /\ s[1] = "@"

RECURSIVE TrimStart(_)
TrimStart(s) == IF s # <<>> /\ Head(s) = "ws" THEN TrimStart(Tail(s)) ELSE s

RECURSIVE TrimEnd(_)
TrimEnd(s) ==
    IF s # <<>> /\ s[Len(s)] = "ws" THEN TrimEnd(SubSeq(s, 1, Len(s) - 1)) ELSE s

\* str::trim
Trim(s) == TrimEnd(TrimStart(s))

\* Path::extension: the part after the last dot, when there is one
Extension(f) == IF Len(f) >= 2 THEN Some(f[Len(f)]) ELSE None

\* Vec<String>::join(sep)
RECURSIVE Join(_, _)
Join(parts, sep) ==
    IF parts = <<>> THEN <<>>
    ELSE IF Len(parts) = 1 THEN parts[1]
    ELSE parts[1] \o <<sep>> \o Join(Tail(parts), sep)

\* str::split(sep) for a one-token separator
RECURSIVE Split(_, _)
Split(s, sep) ==
    IF ~Contains(s, sep) THEN <<s>>
    ELSE LET i == Find(s, sep)
         IN <<SubSeq(s, 1, i - 1)>> \o Split(SubSeq(s, i + 1, Len(s)), sep)

\* the elements of a sequence
Range(s) == {s[i] : i \in DOMAIN s}

\* the sequences over S of length at most n
SeqsUpTo(S, n) == UNION {[1..k -> S] : k \in 0..n}

(***************************************************************************)
(* ModEntry { id, name }.                                                  *)
(***************************************************************************)
ModEntry(i, n) == [id |-> i, name |-> n]

ModA == ModEntry(1, <<"A">>)
ModB == ModEntry(2, <<"B">>)
ModC == ModEntry(3, <<"C">>)

\* the mods a configuration may list individually
ConfigMods == {ModA, ModB}

Names(list) == [i \in DOMAIN list |-> list[i].name]

(***************************************************************************)
(* SteamCollectionParser (src/src/collection_parser.rs).                   *)
(* A page is what the parsed document shows to the selectors: whether an   *)
(* element of class collectionChildren / workshopItem exists, and the <a>  *)
(* elements in document order, each with its href and the text of the      *)
(* first .workshopItemTitle inside it (None when there is none).           *)
(***************************************************************************)
FILEDETAILS_SELECTOR == <<"/sharedfiles/", "filedetails", "/", "?id=">>

\* str::parse::<u64>
ParseU64(s) ==
    IF Len(s) = 1 /\ s[1] \in {"1", "2", "3"}
    THEN Ok(CASE s[1] = "1" -> 1 [] s[1] = "2" -> 2 [] s[1] = "3" -> 3)
    ELSE Err("ParseInt")

extract_mod_id_from_url(url) ==
    LET id_start == Find(url, "?id=") IN
    IF id_start = 0 THEN None
    ELSE LET id_part == SubSeq(url, id_start + 1, Len(url))
             amp == Find(id_part, "&")
             id_end == IF amp = 0 THEN Len(id_part) ELSE amp - 1
         IN Some(SubSeq(id_part, 1, id_end))

\* the body of the for loop of parse_collection_html for one <a> element:
\* the entries it pushes
ParseLink(a) ==
    IF ~ContainsSeq(a.href, FILEDETAILS_SELECTOR) THEN <<>>
    ELSE LET id_str == extract_mod_id_from_url(a.href) IN
         IF ~id_str.some THEN <<>>
         ELSE LET id == ParseU64(id_str.val) IN
              IF ~id.ok THEN <<>>
              ELSE IF ~a.title.some THEN <<>>
              ELSE LET name == Trim(a.title.val) IN
                   IF name = <<>> THEN <<>> ELSE <<ModEntry(id.val, name)>>

RECURSIVE ParseLinks(_)
ParseLinks(links) ==
    IF links = <<>> THEN <<>> ELSE ParseLink(Head(links)) \o ParseLinks(Tail(links))

parse_collection_html(page) ==
    LET mods == ParseLinks(page.links) IN
    IF mods = <<>> THEN Err("NoWorkshopItems") ELSE Ok(mods)

\* mutant: a page with the collection-children region is taken for a
\* collection page
is_collection_page_ChildrenOnly(page) == page.collectionChildren

is_collection_page(page) == page.collectionChildren /\ page.workshopItem

(***************************************************************************)
(* CollectionFetcher (src/src/collection_fetcher.rs).                      *)
(***************************************************************************)
\* download_page: the curl transfer, the response code, the UTF-8 decoding
download_page(page) ==
    IF ~page.transfer THEN Err("Curl")
    ELSE IF page.status # HTTP_OK THEN Err("Http")
    ELSE IF ~page.utf8 THEN Err("Utf8")
    ELSE Ok(page)

\* fetch_collection_mods; `page` is what the network would answer for the
\* URL.  downloaded / parsed record whether download_page and
\* parse_collection_html were called, html is the content download_page
\* returned.
fetch_collection_mods(collection_url, page) ==
    IF ~Contains(collection_url, "steamcommunity.com")
       \/ ~Contains(collection_url, "filedetails")
    THEN [res |-> Err("InvalidUrl"), downloaded |-> FALSE, parsed |-> FALSE,
          html |-> None]
    ELSE LET html == download_page(page) IN
         IF ~html.ok
         THEN [res |-> Err(html.err), downloaded |-> TRUE, parsed |-> FALSE,
               html |-> None]
         ELSE IF ~is_collection_page(html.val)
         THEN [res |-> Err("NotCollection"), downloaded |-> TRUE, parsed |-> FALSE,
               html |-> Some(html.val)]
         ELSE [res |-> parse_collection_html(html.val),
               downloaded |-> TRUE, parsed |-> TRUE, html |-> Some(html.val)]

(***************************************************************************)
(* The pages the network may answer with, and the URLs a configuration may *)
(* hold.                                                                   *)
(***************************************************************************)
Href(idTokens) ==
    <<"https://", "steamcommunity.com">> \o FILEDETAILS_SELECTOR \o idTokens

LinkA == [href |-> Href(<<"1">>), title |-> Some(<<"A">>)]
LinkB == [href |-> Href(<<"2", "&", "searchtext=">>), title |-> Some(<<"B">>)]
LinkC == [href |-> Href(<<"3">>), title |-> Some(<<"ws", "C", "ws">>)]
LinkBadId == [href |-> Href(<<"abc">>), title |-> Some(<<"B">>)]
LinkNoTitle == [href |-> Href(<<"2">>), title |-> None]
LinkBlankTitle == [href |-> Href(<<"2">>), title |-> Some(<<"ws">>)]
LinkOther == [href |-> <<"https://", "steamcommunity.com", "/app/">>,
              title |-> Some(<<"B">>)]

Page(transfer, status, children, item, links) ==
    [transfer |-> transfer, status |-> status, utf8 |-> TRUE,
     collectionChildren |-> children, workshopItem |-> item, links |-> links]

Pages ==
    { Page(TRUE, 200, TRUE, TRUE, <<LinkC>>),
      Page(TRUE, 200, TRUE, TRUE,
           <<LinkB, LinkBadId, LinkNoTitle, LinkOther, LinkA>>),
      Page(TRUE, 200, TRUE, TRUE, <<LinkBadId, LinkBlankTitle, LinkOther>>),
      Page(TRUE, 200, FALSE, TRUE, <<LinkC>>),
      Page(TRUE, 200, TRUE, FALSE, <<LinkC>>),
      Page(TRUE, 404, FALSE, FALSE, <<>>),
      Page(FALSE, 0, FALSE, FALSE, <<>>),
      [Page(TRUE, 200, TRUE, TRUE, <<LinkC>>) EXCEPT !.utf8 = FALSE] }

UrlValid == <<"https://", "steamcommunity.com">> \o FILEDETAILS_SELECTOR \o <<"9">>
UrlOtherHost == <<"https://", "example.com">> \o FILEDETAILS_SELECTOR \o <<"9">>
UrlOtherPath == <<"https://", "steamcommunity.com", "/app/">>

\* config.mods.mod_collection_url: Option<String>
ConfigUrls ==
    {None, Some(<<>>), Some(<<"ws", "ws">>), Some(UrlValid), Some(UrlOtherHost),
     Some(UrlOtherPath)}

(***************************************************************************)
(* The file system.                                                        *)
(*                                                                         *)
(* serverDir: the entries of the server install directory, each            *)
(*   [name, kind, target]; an activation link is                           *)
(*   [name |-> <<"@">> \o modName, kind |-> "link", target |-> id].        *)
(* keys: the entries of <install dir>/keys, each [name, kind, src];        *)
(*   src = 0 for a file that is the server's own, src = id for a link to   *)
(*   the key of that name in package id.                                   *)
(* cached: the ids whose package directory exists in the SteamCMD          *)
(*   workshop cache, <cache>/<DAYZ_GAME_APP_ID>/<id>.                      *)
(* The code is Windows-only (std::os::windows::fs): names are looked up    *)
(* case-insensitively.                                                     *)
(***************************************************************************)
DirEntry(n, k, t) == [name |-> n, kind |-> k, target |-> t]
KeyEntry(n, k, s) == [name |-> n, kind |-> k, src |-> s]

\* what a package ships under <package>/keys: None when it has no keys
\* directory, else the directory listing in read_dir order
PkgKeysDir(id) ==
    CASE id = 1 -> Some(<< <<"k", "bikey">>, <<"readme", "txt">>, <<"bikey">>,
                           <<"dayz", "bikey">> >>)
      [] id = 2 -> Some(<< <<"dayz", "bikey">>, <<"k", "bikey">>, <<"b", "BIKEY">> >>)
      [] OTHER -> None

\* Path::exists for <install dir>/<name>
DirHas(dir, n) == \E e \in dir : to_lowercase(e.name) = to_lowercase(n)

\* Path::exists for <install dir>/keys/<name>
KeysHas(ks, n) == \E k \in ks : to_lowercase(k.name) = to_lowercase(n)

BaseEntries ==
    { DirEntry(SERVER_EXE, "file", 0), DirEntry(SERVER_KEYS, "dir", 0),
      DirEntry(SERVER_CONFIG, "file", 0), DirEntry(SERVER_PROFILES, "dir", 0) }

\* the states of the install directory a process may start in
FsPresets == {"fresh", "stale", "nokeysdir", "noinstalldir"}

InitInstallDirExists(fs) == fs # "noinstalldir"

InitServerDir(fs) ==
    CASE fs = "fresh" -> BaseEntries
      [] fs = "stale" ->
           BaseEntries \cup { DirEntry(<<"@", "A">>, "link", 1),
                              DirEntry(<<"@", "Old">>, "link", 9) }
      [] fs = "nokeysdir" -> BaseEntries \ {DirEntry(SERVER_KEYS, "dir", 0)}
      [] OTHER -> {}

InitKeys(fs) ==
    CASE fs = "fresh" -> { KeyEntry(<<"dayz", "bikey">>, "file", 0) }
      [] fs = "stale" ->
           { KeyEntry(<<"DayZ", "bikey">>, "file", 0),
             KeyEntry(<<"k", "bikey">>, "file", 0),
             KeyEntry(<<"old", "bikey">>, "link", 9),
             KeyEntry(<<"backup">>, "dir", 0) }
      [] OTHER -> {}

\* the package cache a process starts with: the packages of ModA and ModC
\* are there, the package of ModB is not
InitCached == {1, 3}

(***************************************************************************)
(* SteamCmdManager: the download collaborator.  The revision that          *)
(* ServerManager calls (get_workshop_mod_dir, download_or_update_mod) is   *)
(* not part of the sources; the two are modelled from the specification:   *)
(* the cache is organised as <cache_root>/<package_id>, and the tool is a  *)
(* black box that fails, or reports success with the package present, or   *)
(* reports success with the package absent.                                *)
(***************************************************************************)
get_workshop_mod_dir(app_id, workshop_id) == Ok([app |-> app_id, id |-> workshop_id])

DownloadOutcomes == {"ok", "fail", "absent"}

download_or_update_mod(workshop_id, outcome, cache) ==
    CASE outcome = "ok" -> [res |-> Ok(<<>>), cached |-> cache \cup {workshop_id}]
      [] outcome = "absent" -> [res |-> Ok(<<>>), cached |-> cache]
      [] OTHER -> [res |-> Err("Download"), cached |-> cache]

\* Path::exists for a package directory
PackageExists(cache, path) == path.id \in cache

\* install_or_update_app: the tool fails, or reports success with the server
\* application in the install directory: [res, dirExists, dir, ks]
AppOutcomes == {"ok", "fail"}

install_or_update_app(app_id, outcome, dirExists, dir, ks) ==
    IF outcome = "ok"
    THEN [res |-> Ok(<<>>), dirExists |-> TRUE,
          dir |-> dir \cup {e \in BaseEntries : ~DirHas(dir, e.name)},
          ks |-> IF KeysHas(ks, RESERVED_KEY) THEN ks
                 ELSE ks \cup {KeyEntry(RESERVED_KEY, "file", 0)}]
    ELSE [res |-> Err("Update"), dirExists |-> dirExists, dir |-> dir, ks |-> ks]

(***************************************************************************)
(* SteamCmdManager::check_and_install (src/src/steamcmd.rs).               *)
(* dir: the SteamCMD directory, [exists, entries].                         *)
(* env: what the call meets: [createFault, readFault, answer, net,         *)
(*      extractFault]: create_dir_all or read_dir refused, the answer to   *)
(*      the prompt, the answer of the network to the download of the zip,  *)
(*      the index of the archive file whose extraction fails (0: none).    *)
(* The result is [res, dir, prompted, downloaded].                         *)
(***************************************************************************)
STEAMCMD_EXE == <<"steamcmd", "exe">>

\* Path::exists for <steamcmd_dir>/<name>
SteamCmdHas(dir, n) == dir.exists /\ n \in dir.entries

\* what the operator answers to "Proceed with installation?": yes (or the
\* default, an empty line), no, or the terminal cannot be read
PromptAnswers == {"yes", "no", "error"}

\* prompt_yes_no(prompt, true, 1)
prompt_yes_no(answer) ==
    IF answer = "error" THEN Err("Prompt") ELSE Ok(answer = "yes")

\* the answers of the network to the download of steamcmd.zip: the transfer
\* fails, a status other than 200, an empty body, bytes that are no archive,
\* or an archive with its files in order
ZipAnswers ==
    { [kind |-> "Curl", files |-> <<>>], [kind |-> "Http", files |-> <<>>],
      [kind |-> "Empty", files |-> <<>>], [kind |-> "Corrupt", files |-> <<>>],
      [kind |-> "zip", files |-> <<STEAMCMD_EXE>>],
      [kind |-> "zip", files |-> << <<"readme", "txt">>, STEAMCMD_EXE >>] }

\* mutant: the directory is taken for empty whatever it holds
is_directory_empty_AlwaysEmpty(dir, readFault) ==
    IF readFault \/ ~dir.exists THEN Err("ReadDir") ELSE Ok(TRUE)

\* is_directory_empty: entries.count() == 0
is_directory_empty(dir, readFault) ==
    IF readFault \/ ~dir.exists THEN Err("ReadDir")
    ELSE Ok(Cardinality(dir.entries) = 0)

download_steamcmd_zip(net) ==
    IF net.kind \in {"Curl", "Http", "Empty"} THEN Err(net.kind) ELSE Ok(net)

\* extract_zip: the files are written in archive order; a write that fails
\* leaves those written before it
extract_zip(zip, dir, extractFault) ==
    IF zip.kind = "Corrupt" THEN [res |-> Err("Zip"), dir |-> dir]
    ELSE IF extractFault \in DOMAIN zip.files
    THEN [res |-> Err("Extract"),
          dir |-> [dir EXCEPT !.entries =
                      @ \cup {zip.files[i] : i \in 1..(extractFault - 1)}]]
    ELSE [res |-> Ok(<<>>),
          dir |-> [dir EXCEPT !.entries = @ \cup Range(zip.files)]]

download_and_install(dir, env) ==
    LET zip_data == download_steamcmd_zip(env.net) IN
    IF ~zip_data.ok THEN [res |-> Err(zip_data.err), dir |-> dir]
    ELSE extract_zip(zip_data.val, dir, env.extractFault)

check_and_install(dir, env) ==
    IF SteamCmdHas(dir, STEAMCMD_EXE)
    THEN [res |-> Ok(<<>>), dir |-> dir, prompted |-> FALSE, downloaded |-> FALSE]
    ELSE IF ~dir.exists /\ env.createFault
    THEN [res |-> Err("CreateDir"), dir |-> dir, prompted |-> FALSE,
          downloaded |-> FALSE]
    ELSE LET dir1 == IF dir.exists THEN dir ELSE [exists |-> TRUE, entries |-> {}]
             empty == is_directory_empty(dir1, env.readFault)
         IN
         IF ~empty.ok
         THEN [res |-> Err(empty.err), dir |-> dir1, prompted |-> FALSE,
               downloaded |-> FALSE]
         ELSE IF ~empty.val
         THEN [res |-> Err("NotEmpty"), dir |-> dir1, prompted |-> FALSE,
               downloaded |-> FALSE]
         ELSE LET proceed == prompt_yes_no(env.answer) IN
              IF ~proceed.ok
              THEN [res |-> Err(proceed.err), dir |-> dir1, prompted |-> TRUE,
                    downloaded |-> FALSE]
              ELSE IF ~proceed.val
              THEN [res |-> Err("Declined"), dir |-> dir1, prompted |-> TRUE,
                    downloaded |-> FALSE]
              ELSE download_and_install(dir1, env)
                   @@ [prompted |-> TRUE, downloaded |-> TRUE]

(***************************************************************************)
(* ServerManager (src/src/server.rs): Clear.                               *)
(* stuck: the entries whose removal the file system refuses; the code      *)
(* discards the error of every removal.                                    *)
(***************************************************************************)
\* mutant: the prefix of the name is not looked at
cleanup_mod_directories_AnyName(dirExists, dir, stuck) ==
    IF ~dirExists THEN dir
    ELSE {e \in dir : e \in stuck}

\* mutant: the first removal that is refused ends the loop
cleanup_mod_directories_StopOnError(dirExists, dir, stuck) ==
    IF ~dirExists \/ stuck # {} THEN dir
    ELSE {e \in dir : ~StartsWithAt(e.name)}

\* mutant: the '@' entries are listed but none is removed
cleanup_mod_directories_Nothing(dirExists, dir, stuck) == dir

\* mutant: only real directories are removed, a link is left where it is
cleanup_mod_directories_KeepLinks(dirExists, dir, stuck) ==
    IF ~dirExists THEN dir
    ELSE {e \in dir : ~StartsWithAt(e.name) \/ e.kind = "link" \/ e \in stuck}

cleanup_mod_directories(dirExists, dir, stuck) ==
    IF ~dirExists THEN dir
    ELSE {e \in dir : ~StartsWithAt(e.name) \/ e \in stuck}

\* mutant: the keys directory is left as it is
cleanup_keys_directory_Nothing(dir, ks, stuck) == ks

\* mutant: only regular files are removed, a link to a key is left
cleanup_keys_directory_KeepLinks(dir, ks, stuck) ==
    IF ~DirHas(dir, SERVER_KEYS) THEN ks
    ELSE {k \in ks : \/ to_lowercase(k.name) = RESERVED_KEY
                     \/ k.kind # "file"
                     \/ k \in stuck}

\* mutant: the reserved name is compared as it is spelled
cleanup_keys_directory_CaseSensitive(dir, ks, stuck) ==
    IF ~DirHas(dir, SERVER_KEYS) THEN ks
    ELSE {k \in ks : \/ k.name = RESERVED_KEY
                     \/ k.kind = "dir"
                     \/ k \in stuck}

\* fs::remove_file does not remove a directory
cleanup_keys_directory(dir, ks, stuck) ==
    IF ~DirHas(dir, SERVER_KEYS) THEN ks
    ELSE {k \in ks : \/ to_lowercase(k.name) = RESERVED_KEY
                     \/ k.kind = "dir"
                     \/ k \in stuck}

\* the entries Clear tries to remove
ClearTargetsDir(dirExists, dir) ==
    IF dirExists THEN {e \in dir : StartsWithAt(e.name)} ELSE {}

ClearTargetsKeys(dir, ks) ==
    IF DirHas(dir, SERVER_KEYS)
    THEN {k \in ks : to_lowercase(k.name) # RESERVED_KEY /\ k.kind # "dir"}
    ELSE {}

(***************************************************************************)
(* ServerManager: the collection list (OnceCell) and the individual list.  *)
(***************************************************************************)
\* mutant: of the entries of one name only the first is kept
get_individual_mods_Dedup(server_mod_list) ==
    IF ~server_mod_list.some THEN <<>>
    ELSE LET l == server_mod_list.val
             kept == {i \in DOMAIN l : \A j \in 1..(i - 1) : l[j].name # l[i].name}
         IN [n \in 1..Cardinality(kept) |->
                l[CHOOSE i \in kept : Cardinality({j \in kept : j <= i}) = n]]

get_individual_mods(server_mod_list) ==
    IF server_mod_list.some THEN server_mod_list.val ELSE <<>>

\* get_collection_mods: [cell, list, fetched, fetch]; fetched tells whether
\* CollectionFetcher::fetch_collection_mods was called, fetch is its answer
NoFetch == [res |-> Ok(<<>>), downloaded |-> FALSE, parsed |-> FALSE, html |-> None]

\* mutant: only a fetch that succeeded is remembered
get_collection_mods_CacheOkOnly(cell, url, page) ==
    IF cell.some
    THEN [cell |-> cell, list |-> cell.val, fetched |-> FALSE, fetch |-> NoFetch]
    ELSE IF ~url.some \/ Trim(url.val) = <<>>
    THEN [cell |-> Some(<<>>), list |-> <<>>, fetched |-> FALSE, fetch |-> NoFetch]
    ELSE LET f == fetch_collection_mods(url.val, page)
         IN IF f.res.ok
            THEN [cell |-> Some(f.res.val), list |-> f.res.val, fetched |-> TRUE,
                  fetch |-> f]
            ELSE [cell |-> None, list |-> <<>>, fetched |-> TRUE, fetch |-> f]

get_collection_mods(cell, url, page) ==
    IF cell.some
    THEN [cell |-> cell, list |-> cell.val, fetched |-> FALSE, fetch |-> NoFetch]
    ELSE IF ~url.some \/ Trim(url.val) = <<>>
    THEN [cell |-> Some(<<>>), list |-> <<>>, fetched |-> FALSE, fetch |-> NoFetch]
    ELSE LET f == fetch_collection_mods(url.val, page)
             v == IF f.res.ok THEN f.res.val ELSE <<>>
         IN [cell |-> Some(v), list |-> v, fetched |-> TRUE, fetch |-> f]

(***************************************************************************)
(* ServerManager::install_mod.                                             *)
(* st:  [offline, steamcmd, dirExists, dir, ks, cached]                    *)
(* env: [dl, linkFault, readFault, keyFault]: the answer of the download   *)
(*      tool, and which of symlink_dir, read_dir and symlink_file (of the  *)
(*      keyFault-th key entry, 0 for none) the file system refuses.        *)
(* The result is [res, dir, ks, cached, downloaded].                       *)
(***************************************************************************)
\* mutant: every entry that has an extension is taken for a key
IsBikey_AnyExtension(f) == Extension(f).some

IsBikey(f) ==
    LET extension == Extension(f) IN extension.some /\ LowerTok(extension.val) = "bikey"

\* Path::exists follows links: a link to a key of a package that is not in
\* the cache does not exist
KeyTargetExists(ks, cache, f) ==
    \E k \in ks : /\ to_lowercase(k.name) = to_lowercase(f)
                  /\ (k.kind = "link" => k.src \in cache)

\* mutant: a key is written over the entry of its name (fs::copy of
\* ModsManager::copy_mod_keys)
RECURSIVE MirrorKeys_Overwrite(_, _, _, _, _, _, _)
MirrorKeys_Overwrite(entries, i, id, keysDirExists, ks, cache, keyFault) ==
    IF i > Len(entries) THEN [res |-> Ok(<<>>), ks |-> ks]
    ELSE LET f == entries[i] IN
         IF ~IsBikey(f)
         THEN MirrorKeys_Overwrite(entries, i + 1, id, keysDirExists, ks, cache,
                                   keyFault)
         ELSE IF ~keysDirExists \/ keyFault = i
         THEN [res |-> Err("KeyLink"), ks |-> ks]
         ELSE MirrorKeys_Overwrite(entries, i + 1, id, keysDirExists,
                  {k \in ks : to_lowercase(k.name) # to_lowercase(f)}
                      \cup {KeyEntry(f, "link", id)},
                  cache, keyFault)

\* the loop over the entries of <package>/keys, from entry i on
RECURSIVE MirrorKeys(_, _, _, _, _, _, _)
MirrorKeys(entries, i, id, keysDirExists, ks, cache, keyFault) ==
    IF i > Len(entries) THEN [res |-> Ok(<<>>), ks |-> ks]
    ELSE LET f == entries[i] IN
         IF ~IsBikey(f)
         THEN MirrorKeys(entries, i + 1, id, keysDirExists, ks, cache, keyFault)
         ELSE IF KeyTargetExists(ks, cache, f)
         THEN MirrorKeys(entries, i + 1, id, keysDirExists, ks, cache, keyFault)
         ELSE IF ~keysDirExists \/ KeysHas(ks, f) \/ keyFault = i
         THEN [res |-> Err("KeyLink"), ks |-> ks]
         ELSE MirrorKeys(entries, i + 1, id, keysDirExists,
                         ks \cup {KeyEntry(f, "link", id)}, cache, keyFault)

\* mutant: an entry in the way of the activation link is removed before the
\* call fails
LinkAndKeys_RemoveOnFailure(workshop_id, name, env, st, cache, downloaded) ==
    LET mod_target == <<"@">> \o name
        unchanged == [dir |-> st.dir, ks |-> st.ks, cached |-> cache,
                      downloaded |-> downloaded]
    IN
    IF ~st.dirExists \/ DirHas(st.dir, mod_target) \/ env.linkFault
    THEN [res |-> Err("Link")]
         @@ [unchanged EXCEPT !.dir = {e \in st.dir : e.name # mod_target}]
    ELSE LET dir1 == st.dir \cup {DirEntry(mod_target, "link", workshop_id)}
             keysDir == IF workshop_id \in cache THEN PkgKeysDir(workshop_id) ELSE None
         IN
         IF ~keysDir.some
         THEN [unchanged EXCEPT !.dir = dir1] @@ [res |-> Ok(<<>>)]
         ELSE IF env.readFault
         THEN [unchanged EXCEPT !.dir = dir1] @@ [res |-> Err("KeysRead")]
         ELSE LET m == MirrorKeys(keysDir.val, 1, workshop_id,
                                  DirHas(st.dir, SERVER_KEYS), st.ks, cache,
                                  env.keyFault)
              IN [unchanged EXCEPT !.dir = dir1, !.ks = m.ks] @@ [res |-> m.res]

\* mutant: a failure of the keys step takes back the link and the keys of the
\* call
LinkAndKeys_Atomic(workshop_id, name, env, st, cache, downloaded) ==
    LET mod_target == <<"@">> \o name
        unchanged == [dir |-> st.dir, ks |-> st.ks, cached |-> cache,
                      downloaded |-> downloaded]
    IN
    IF ~st.dirExists \/ DirHas(st.dir, mod_target) \/ env.linkFault
    THEN [res |-> Err("Link")] @@ unchanged
    ELSE LET dir1 == st.dir \cup {DirEntry(mod_target, "link", workshop_id)}
             keysDir == IF workshop_id \in cache THEN PkgKeysDir(workshop_id) ELSE None
         IN
         IF ~keysDir.some
         THEN [unchanged EXCEPT !.dir = dir1] @@ [res |-> Ok(<<>>)]
         ELSE IF env.readFault
         THEN unchanged @@ [res |-> Err("KeysRead")]
         ELSE LET m == MirrorKeys(keysDir.val, 1, workshop_id,
                                  DirHas(st.dir, SERVER_KEYS), st.ks, cache,
                                  env.keyFault)
              IN IF m.res.ok
                 THEN [unchanged EXCEPT !.dir = dir1, !.ks = m.ks] @@ [res |-> m.res]
                 ELSE unchanged @@ [res |-> m.res]

\* install_mod from "Installing..." on: the activation link and the keys
LinkAndKeys(workshop_id, name, env, st, cache, downloaded) ==
    LET mod_target == <<"@">> \o name
        unchanged == [dir |-> st.dir, ks |-> st.ks, cached |-> cache,
                      downloaded |-> downloaded]
    IN
    IF ~st.dirExists \/ DirHas(st.dir, mod_target) \/ env.linkFault
    THEN [res |-> Err("Link")] @@ unchanged
    ELSE LET dir1 == st.dir \cup {DirEntry(mod_target, "link", workshop_id)}
             keysDir == IF workshop_id \in cache THEN PkgKeysDir(workshop_id) ELSE None
         IN
         IF ~keysDir.some
         THEN [unchanged EXCEPT !.dir = dir1] @@ [res |-> Ok(<<>>)]
         ELSE IF env.readFault
         THEN [unchanged EXCEPT !.dir = dir1] @@ [res |-> Err("KeysRead")]
         ELSE LET m == MirrorKeys(keysDir.val, 1, workshop_id,
                                  DirHas(st.dir, SERVER_KEYS), st.ks, cache,
                                  env.keyFault)
              IN [unchanged EXCEPT !.dir = dir1, !.ks = m.ks] @@ [res |-> m.res]

\* mutant: the offline flag is not looked at
EnsurePackage_AlwaysDownload(workshop_id, mod_source_path, env, st) ==
    download_or_update_mod(workshop_id, env.dl, st.cached) @@ [downloaded |-> TRUE]

\* install_mod, the offline / online branch: [res, cached, downloaded]
EnsurePackage(workshop_id, mod_source_path, env, st) ==
    IF st.offline
    THEN IF PackageExists(st.cached, mod_source_path)
         THEN [res |-> Ok(<<>>), cached |-> st.cached, downloaded |-> FALSE]
         ELSE [res |-> Err("NotFoundLocally"), cached |-> st.cached,
               downloaded |-> FALSE]
    ELSE download_or_update_mod(workshop_id, env.dl, st.cached)
         @@ [downloaded |-> TRUE]

install_mod(workshop_id, name, env, st) ==
    LET unchanged == [dir |-> st.dir, ks |-> st.ks, cached |-> st.cached,
                      downloaded |-> FALSE]
    IN
    IF ~st.steamcmd THEN [res |-> Err("NotSetup")] @@ unchanged
    ELSE LET mod_source_path == get_workshop_mod_dir(DAYZ_GAME_APP_ID, workshop_id) IN
         IF ~mod_source_path.ok THEN [res |-> Err(mod_source_path.err)] @@ unchanged
         ELSE LET p == EnsurePackage(workshop_id, mod_source_path.val, env, st) IN
              IF ~p.res.ok
              THEN [res |-> Err(p.res.err)]
                   @@ [unchanged EXCEPT !.downloaded = p.downloaded]
              ELSE LinkAndKeys(workshop_id, name, env, st, p.cached, p.downloaded)

(***************************************************************************)
(* ServerManager: the launch arguments.                                    *)
(***************************************************************************)
AtNames(list) == [i \in DOMAIN list |-> <<"@">> \o list[i].name]

\* mutant: the flag is rendered for an empty list too
build_mods_string_EmptyFlag(collection_list) ==
    Some(Join(AtNames(collection_list), ";"))

build_mods_string(collection_list) ==
    IF collection_list = <<>> THEN None ELSE Some(Join(AtNames(collection_list), ";"))

build_server_mods_string(individual_list) ==
    IF individual_list = <<>> THEN None ELSE Some(Join(AtNames(individual_list), ";"))

\* mutant: each string goes under the flag of the other
ServerArgs_Swapped(mods_string, server_mods_string) ==
    << <<"-config=">> \o SERVER_CONFIG, <<"-profiles=">> \o SERVER_PROFILES >>
    \o (IF server_mods_string.some
        THEN << <<"-mod=">> \o server_mods_string.val >> ELSE <<>>)
    \o (IF mods_string.some THEN << <<"-serverMod=">> \o mods_string.val >> ELSE <<>>)

\* the argument vector of run_server
ServerArgs(mods_string, server_mods_string) ==
    << <<"-config=">> \o SERVER_CONFIG, <<"-profiles=">> \o SERVER_PROFILES >>
    \o (IF mods_string.some THEN << <<"-mod=">> \o mods_string.val >> ELSE <<>>)
    \o (IF server_mods_string.some
        THEN << <<"-serverMod=">> \o server_mods_string.val >> ELSE <<>>)

(***************************************************************************)
(* The state.  The return value and the history of a public call are kept  *)
(* until the next public call starts.                                      *)
(***************************************************************************)
VARIABLES
    \* CliArgs and Config
    offline, server_mod_list, mod_collection_url,
    \* ServerManager
    steamcmd_manager, collection_mod_list,
    \* SteamCmdManager: the SteamCMD directory, and what the last call of
    \* check_and_install met and did
    steamcmd_dir, lastCheck,
    \* the file system
    installDirExists, serverDir, keys, cached,
    \* install_or_update_mods: position, locals, return value, summary line
    pc, individual_mods, collection_mods, next, failed_mods, result, summary,
    \* run_server: the argument vector and the return value
    serverArgs, serverResult,
    \* install_or_update_server: what the call did
    serverUpdate,
    \* history of the current public call: the install_mod calls, the removals
    \* Clear was refused, the keys directory as Clear left it, the answer of
    \* the fetcher
    attempts, stuck, keys0, lastFetch,
    \* history of the process: the calls of the fetcher and of download_page,
    \* the first and the last list get_collection_mods returned
    fetchCalls, pageDownloads, firstRead, lastRead,
    \* budgets: faults injected, public calls made
    faults, calls,
    \* the installation the process started with, or a fresh one since
    \* install_or_update_app installed the server where an installation was
    \* missing; the collection cell when the current run started
    fs0, cell0,
    \* what the run before the current one left behind, when the call before
    \* the current run was a run that met no fault and returned success
    prev

config == <<offline, server_mod_list, mod_collection_url, fs0>>
fsVars == <<installDirExists, serverDir, keys, cached>>
runVars == <<pc, individual_mods, collection_mods, next, failed_mods, result,
             summary, attempts, stuck, keys0, cell0>>
cellVars == <<collection_mod_list, fetchCalls, pageDownloads, firstRead, lastRead>>
steamVars == <<steamcmd_dir, lastCheck>>
vars == <<config, prev, steamVars, steamcmd_manager, fsVars, runVars, cellVars, lastFetch,
          serverArgs, serverResult, serverUpdate, faults, calls>>

NoResult == [state |-> "none", msg |-> <<>>]
RunOk == [state |-> "ok", msg |-> <<>>]
RunErr(msg) == [state |-> "err", msg |-> msg]

\* anyhow!("Some mods failed to install. Check SteamCMD output above for details.")
SOME_MODS_FAILED ==
    <<"Some mods failed to install.", " ", "Check SteamCMD output above for details.">>

\* mutant: the summary line names the first failed mod only
FailureSummary_FirstOnly(failed) ==
    <<"Failed to install ", ToString(Len(failed)), " mod(s): ">> \o failed[1]

\* format!("Failed to install {} mod(s): {}", failed_mods.len(), failed_mods.join(", "))
FailureSummary(failed) ==
    <<"Failed to install ", ToString(Len(failed)), " mod(s): ">> \o Join(failed, ", ")

\* no call of check_and_install was made yet
NoCheck ==
    [called |-> FALSE, res |-> Ok(<<>>), prompted |-> FALSE, downloaded |-> FALSE,
     answer |-> "none", before |-> [exists |-> FALSE, entries |-> {}]]

\* no run came before, or the call before was not a run that met no fault and
\* returned success
NoRun == [some |-> FALSE, links |-> {}, keys |-> {}, cached |-> {}]

\* the ServerManager of a new process and the file system it finds
ServerInit ==
    /\ offline \in BOOLEAN
    /\ server_mod_list \in {None} \cup {Some(l) : l \in SeqsUpTo(ConfigMods, MaxMods)}
    /\ mod_collection_url \in ConfigUrls
    /\ steamcmd_manager = FALSE
    /\ collection_mod_list = None
    /\ fs0 \in FsPresets
    /\ installDirExists = InitInstallDirExists(fs0)
    /\ serverDir = InitServerDir(fs0)
    /\ keys = InitKeys(fs0)
    /\ cached = InitCached
    /\ pc = "idle"
    /\ individual_mods = <<>>
    /\ collection_mods = <<>>
    /\ next = 1
    /\ failed_mods = <<>>
    /\ result = NoResult
    /\ summary = <<>>
    /\ serverArgs = <<>>
    /\ serverResult = "none"
    /\ serverUpdate = "none"
    /\ attempts = <<>>
    /\ stuck = [dir |-> {}, keys |-> {}]
    /\ keys0 = {}
    /\ fetchCalls = 0
    /\ pageDownloads = 0
    /\ lastFetch = NoFetch
    /\ firstRead = None
    /\ lastRead = None
    /\ faults = 0
    /\ calls = 0
    /\ cell0 = None
    /\ prev = NoRun

\* ServerManager::new: the SteamCMD directory is not looked at by the
\* operations of Spec
Init ==
    /\ ServerInit
    /\ steamcmd_dir = [exists |-> FALSE, entries |-> {}]
    /\ lastCheck = NoCheck

(***************************************************************************)
(* setup_steamcmd: SteamCmdManager::new succeeds or fails.                 *)
(***************************************************************************)
SetupSteamcmd ==
    /\ pc = "idle"
    /\ \E created \in BOOLEAN : steamcmd_manager' = (steamcmd_manager \/ created)
    /\ UNCHANGED <<config, prev, steamVars, fsVars, runVars, cellVars, lastFetch,
                   serverArgs, serverResult, serverUpdate, faults, calls>>

\* the answers of the network that matter to a call of get_collection_mods:
\* any one when the call does not fetch
PagesFor(cell, url) ==
    IF cell.some \/ ~url.some \/ Trim(url.val) = <<>>
    THEN {CHOOSE p \in Pages : TRUE}
    ELSE Pages

\* what a call of get_collection_mods leaves in the cell and in the history
ReadCollection(g) ==
    /\ collection_mod_list' = g.cell
    /\ fetchCalls' = fetchCalls + (IF g.fetched THEN 1 ELSE 0)
    /\ pageDownloads' = pageDownloads + (IF g.fetch.downloaded THEN 1 ELSE 0)
    /\ lastFetch' = g.fetch
    /\ firstRead' = IF firstRead.some THEN firstRead ELSE Some(g.list)
    /\ lastRead' = Some(g.list)

\* mutant: the individual list is read before the old state is cleared
Clear_ReadsIndividual ==
    /\ pc = "idle"
    /\ calls < MaxCalls
    /\ \E sd \in SUBSET ClearTargetsDir(installDirExists, serverDir),
          sk \in SUBSET ClearTargetsKeys(serverDir, keys) :
          /\ Cardinality(sd) + Cardinality(sk) <= MaxFaults - faults
          /\ serverDir' = cleanup_mod_directories(installDirExists, serverDir, sd)
          /\ keys' = cleanup_keys_directory(serverDir, keys, sk)
          /\ stuck' = [dir |-> sd, keys |-> sk]
          /\ keys0' = cleanup_keys_directory(serverDir, keys, sk)
          /\ faults' = faults + Cardinality(sd) + Cardinality(sk)
    /\ pc' = "resolve"
    /\ calls' = calls + 1
    /\ individual_mods' = get_individual_mods(server_mod_list)
    /\ collection_mods' = <<>>
    /\ next' = 1
    /\ failed_mods' = <<>>
    /\ result' = NoResult
    /\ summary' = <<>>
    /\ attempts' = <<>>
    /\ cell0' = collection_mod_list
    /\ lastFetch' = NoFetch
    /\ serverArgs' = <<>>
    /\ serverResult' = "none"
    /\ serverUpdate' = "none"
    /\ prev' = IF result = RunOk /\ faults = 0
               THEN [some |-> TRUE,
                     links |-> {e \in serverDir : StartsWithAt(e.name)},
                     keys |-> keys, cached |-> cached]
               ELSE NoRun
    /\ UNCHANGED <<config, steamVars, steamcmd_manager, installDirExists, cached, cellVars>>

\* mutant: the links of the last run are removed by the first run of a process
\* only
Clear_FirstRunOnly ==
    /\ pc = "idle"
    /\ calls < MaxCalls
    /\ \E sd \in SUBSET ClearTargetsDir(installDirExists, serverDir),
          sk \in SUBSET ClearTargetsKeys(serverDir, keys) :
          /\ Cardinality(sd) + Cardinality(sk) <= MaxFaults - faults
          /\ serverDir' = IF calls = 0
                          THEN cleanup_mod_directories(installDirExists, serverDir, sd)
                          ELSE serverDir
          /\ keys' = cleanup_keys_directory(serverDir, keys, sk)
          /\ stuck' = [dir |-> sd, keys |-> sk]
          /\ keys0' = cleanup_keys_directory(serverDir, keys, sk)
          /\ faults' = faults + Cardinality(sd) + Cardinality(sk)
    /\ pc' = "resolve"
    /\ calls' = calls + 1
    /\ individual_mods' = <<>>
    /\ collection_mods' = <<>>
    /\ next' = 1
    /\ failed_mods' = <<>>
    /\ result' = NoResult
    /\ summary' = <<>>
    /\ attempts' = <<>>
    /\ cell0' = collection_mod_list
    /\ lastFetch' = NoFetch
    /\ serverArgs' = <<>>
    /\ serverResult' = "none"
    /\ serverUpdate' = "none"
    /\ prev' = IF result = RunOk /\ faults = 0
               THEN [some |-> TRUE,
                     links |-> {e \in serverDir : StartsWithAt(e.name)},
                     keys |-> keys, cached |-> cached]
               ELSE NoRun
    /\ UNCHANGED <<config, steamVars, steamcmd_manager, installDirExists, cached, cellVars>>

(***************************************************************************)
(* install_or_update_mods, step 1: uninstall_prev_mod_installations.       *)
(***************************************************************************)
Clear ==
    /\ pc = "idle"
    /\ calls < MaxCalls
    /\ \E sd \in SUBSET ClearTargetsDir(installDirExists, serverDir),
          sk \in SUBSET ClearTargetsKeys(serverDir, keys) :
          /\ Cardinality(sd) + Cardinality(sk) <= MaxFaults - faults
          /\ serverDir' = cleanup_mod_directories(installDirExists, serverDir, sd)
          /\ keys' = cleanup_keys_directory(serverDir, keys, sk)
          /\ stuck' = [dir |-> sd, keys |-> sk]
          /\ keys0' = cleanup_keys_directory(serverDir, keys, sk)
          /\ faults' = faults + Cardinality(sd) + Cardinality(sk)
    /\ pc' = "resolve"
    /\ calls' = calls + 1
    /\ individual_mods' = <<>>
    /\ collection_mods' = <<>>
    /\ next' = 1
    /\ failed_mods' = <<>>
    /\ result' = NoResult
    /\ summary' = <<>>
    /\ attempts' = <<>>
    /\ cell0' = collection_mod_list
    /\ lastFetch' = NoFetch
    /\ serverArgs' = <<>>
    /\ serverResult' = "none"
    /\ serverUpdate' = "none"
    /\ prev' = IF result = RunOk /\ faults = 0
               THEN [some |-> TRUE,
                     links |-> {e \in serverDir : StartsWithAt(e.name)},
                     keys |-> keys, cached |-> cached]
               ELSE NoRun
    /\ UNCHANGED <<config, steamVars, steamcmd_manager, installDirExists, cached, cellVars>>

\* mutant: the run goes through the loops and the report with empty lists too
Resolve_NoEarlyReturn ==
    /\ pc = "resolve"
    /\ \E page \in PagesFor(collection_mod_list, mod_collection_url) :
          LET g == get_collection_mods(collection_mod_list, mod_collection_url, page)
              ind == get_individual_mods(server_mod_list)
          IN /\ ReadCollection(g)
             /\ individual_mods' = ind
             /\ collection_mods' = g.list
             /\ pc' = "install"
             /\ result' = result
    /\ UNCHANGED <<config, prev, steamVars, steamcmd_manager, fsVars, next, failed_mods, summary,
                   attempts, stuck, keys0, cell0, serverArgs, serverResult,
                   serverUpdate, faults, calls>>

\* mutant: a fetch that failed ends the run with its error
Resolve_FetchErrorAborts ==
    /\ pc = "resolve"
    /\ \E page \in PagesFor(collection_mod_list, mod_collection_url) :
          LET g == get_collection_mods(collection_mod_list, mod_collection_url, page)
              ind == get_individual_mods(server_mod_list)
          IN /\ ReadCollection(g)
             /\ individual_mods' = ind
             /\ collection_mods' = g.list
             /\ IF ~g.fetch.res.ok
                THEN pc' = "idle" /\ result' = RunErr(<<g.fetch.res.err>>)
                ELSE IF ind = <<>> /\ g.list = <<>>
                THEN pc' = "idle" /\ result' = RunOk
                ELSE pc' = "install" /\ result' = result
    /\ UNCHANGED <<config, prev, steamVars, steamcmd_manager, fsVars, next, failed_mods, summary,
                   attempts, stuck, keys0, cell0, serverArgs, serverResult,
                   serverUpdate, faults, calls>>

(***************************************************************************)
(* install_or_update_mods, step 2: the two lists are read and the run ends *)
(* with success when both are empty.                                       *)
(***************************************************************************)
Resolve ==
    /\ pc = "resolve"
    /\ \E page \in PagesFor(collection_mod_list, mod_collection_url) :
          LET g == get_collection_mods(collection_mod_list, mod_collection_url, page)
              ind == get_individual_mods(server_mod_list)
          IN /\ ReadCollection(g)
             /\ individual_mods' = ind
             /\ collection_mods' = g.list
             /\ IF ind = <<>> /\ g.list = <<>>
                THEN pc' = "idle" /\ result' = RunOk
                ELSE pc' = "install" /\ result' = result
    /\ UNCHANGED <<config, prev, steamVars, steamcmd_manager, fsVars, next, failed_mods, summary,
                   attempts, stuck, keys0, cell0, serverArgs, serverResult,
                   serverUpdate, faults, calls>>

(***************************************************************************)
(* install_or_update_mods, step 3: one iteration of one of the two loops.  *)
(***************************************************************************)
KeyCount(id) == IF PkgKeysDir(id).some THEN Len(PkgKeysDir(id).val) ELSE 0

Envs(id) ==
    [dl : DownloadOutcomes, linkFault : BOOLEAN, readFault : BOOLEAN,
     keyFault : 0..KeyCount(id)]

NoFault == [dl |-> "ok", linkFault |-> FALSE, readFault |-> FALSE, keyFault |-> 0]

EnvCost(env) ==
    (IF env.dl # "ok" THEN 1 ELSE 0) + (IF env.linkFault THEN 1 ELSE 0)
    + (IF env.readFault THEN 1 ELSE 0) + (IF env.keyFault # 0 THEN 1 ELSE 0)

\* the environments obtained from env by taking one fault away
Milder(env) ==
    {e \in { [env EXCEPT !.dl = "ok"], [env EXCEPT !.linkFault = FALSE],
             [env EXCEPT !.readFault = FALSE], [env EXCEPT !.keyFault = 0] } :
       e # env}

State ==
    [offline |-> offline, steamcmd |-> steamcmd_manager,
     dirExists |-> installDirExists, dir |-> serverDir, ks |-> keys,
     cached |-> cached]

\* every fault of env is one the call runs into: r is what the call returns
\* under env
Consulted(env, e, r) ==
    \A m \in Milder(env) : install_mod(e.id, e.name, m, State) # r

\* mutant: the first failure ends the loops (install_single_mod(..)? of
\* ModsManager::install_mods)
Advance_ReturnOnError(n, res) ==
    IF res.ok THEN n + 1 ELSE Len(individual_mods) + Len(collection_mods) + 1

\* mutant: the entry after one that failed is passed over
Advance_SkipAfterFailure(n, res) == IF res.ok THEN n + 1 ELSE n + 2

\* the index of the entry the loops turn to after an attempt
Advance(n, res) == n + 1

\* the body of both for loops; an attempt is recorded with what it did:
\* present (the package was in the cache before), downloaded (the download
\* tool was called), package (the package was in the cache after the
\* download step), linked (the activation link was created), wrote (the
\* keys it mirrored), keyRefused (the file system refused one of its key
\* links)
InstallEntry(e) ==
    \E env \in (IF faults = MaxFaults THEN {NoFault} ELSE Envs(e.id)) :
        /\ EnvCost(env) <= MaxFaults - faults
        /\ \E r \in {install_mod(e.id, e.name, env, State)} :
           /\ Consulted(env, e, r)
           /\ serverDir' = r.dir
           /\ keys' = r.ks
           /\ cached' = r.cached
           /\ attempts' = Append(attempts,
                  [entry |-> e, err |-> r.res.err, present |-> e.id \in cached,
                   downloaded |-> r.downloaded, package |-> e.id \in r.cached,
                   linked |-> r.dir # serverDir, wrote |-> r.ks \ keys,
                   keyRefused |-> env.keyFault # 0])
           /\ next' = Advance(next, r.res)
           /\ failed_mods' = IF r.res.ok THEN failed_mods
                             ELSE Append(failed_mods, e.name)
           /\ faults' = faults + EnvCost(env)

InstallIndividual ==
    /\ pc = "install"
    /\ next <= Len(individual_mods)
    /\ InstallEntry(individual_mods[next])
    /\ UNCHANGED <<config, prev, steamVars, steamcmd_manager, installDirExists, pc, individual_mods,
                   collection_mods, result, summary, stuck, keys0, cell0, cellVars,
                   lastFetch, serverArgs, serverResult, serverUpdate, calls>>

InstallCollection ==
    /\ pc = "install"
    /\ next > Len(individual_mods)
    /\ next <= Len(individual_mods) + Len(collection_mods)
    /\ InstallEntry(collection_mods[next - Len(individual_mods)])
    /\ UNCHANGED <<config, prev, steamVars, steamcmd_manager, installDirExists, pc, individual_mods,
                   collection_mods, result, summary, stuck, keys0, cell0, cellVars,
                   lastFetch, serverArgs, serverResult, serverUpdate, calls>>

(***************************************************************************)
(* install_or_update_mods, step 4: the report.                             *)
(***************************************************************************)
\* mutant: the failure list is reported but not returned
ReportResult_AlwaysOk(failed) == RunOk

ReportResult(failed) ==
    IF failed = <<>> THEN RunOk ELSE RunErr(SOME_MODS_FAILED)

Report ==
    /\ pc = "install"
    /\ next > Len(individual_mods) + Len(collection_mods)
    /\ result' = ReportResult(failed_mods)
    /\ summary' = IF failed_mods = <<>> THEN <<>> ELSE FailureSummary(failed_mods)
    /\ pc' = "idle"
    /\ UNCHANGED <<config, prev, steamVars, steamcmd_manager, fsVars, individual_mods,
                   collection_mods, next, failed_mods, attempts, stuck, keys0,
                   cell0, cellVars, lastFetch, serverArgs, serverResult,
                   serverUpdate, faults, calls>>

(***************************************************************************)
(* run_server: the executable is looked up, the arguments are built, the   *)
(* server runs and exits.                                                  *)
(***************************************************************************)
ServerExits == {"ok", "Spawn", "ExitCode"}

RunServer ==
    /\ pc = "idle"
    /\ calls < MaxCalls
    /\ calls' = calls + 1
    /\ IF ~DirHas(serverDir, SERVER_EXE)
       THEN /\ serverResult' = "ExeNotFound"
            /\ serverArgs' = <<>>
            /\ lastFetch' = NoFetch
            /\ UNCHANGED cellVars
       ELSE \E page \in PagesFor(collection_mod_list, mod_collection_url),
               exit \in ServerExits :
               LET g == get_collection_mods(collection_mod_list,
                                            mod_collection_url, page)
                   ind == get_individual_mods(server_mod_list)
               IN /\ ReadCollection(g)
                  /\ serverArgs' = ServerArgs(build_mods_string(g.list),
                                              build_server_mods_string(ind))
                  /\ serverResult' = exit
    /\ individual_mods' = <<>>
    /\ collection_mods' = <<>>
    /\ next' = 1
    /\ failed_mods' = <<>>
    /\ result' = NoResult
    /\ summary' = <<>>
    /\ attempts' = <<>>
    /\ stuck' = [dir |-> {}, keys |-> {}]
    /\ keys0' = {}
    /\ cell0' = collection_mod_list
    /\ serverUpdate' = "none"
    /\ UNCHANGED <<config, prev, steamVars, steamcmd_manager, fsVars, pc, faults>>

(***************************************************************************)
(* install_or_update_server.  Explored as the first call of a process: a   *)
(* later update acts on the install directory as this one does.            *)
(***************************************************************************)
InstallOrUpdateServer ==
    /\ pc = "idle"
    /\ calls = 0
    /\ calls' = calls + 1
    /\ IF ~steamcmd_manager
       THEN /\ serverUpdate' = "NotSetup"
            /\ UNCHANGED <<fsVars, faults, fs0>>
       ELSE IF offline
       THEN /\ serverUpdate' = IF DirHas(serverDir, SERVER_EXE) THEN "skipped"
                                ELSE "NotFoundLocally"
            /\ UNCHANGED <<fsVars, faults, fs0>>
       ELSE \E outcome \in AppOutcomes :
               LET u == install_or_update_app(DAYZ_SERVER_APP_ID, outcome,
                                              installDirExists, serverDir, keys)
               IN /\ outcome = "fail" => faults < MaxFaults
                  /\ faults' = faults + (IF outcome = "fail" THEN 1 ELSE 0)
                  /\ serverUpdate' = IF u.res.ok THEN "ok" ELSE u.res.err
                  /\ installDirExists' = u.dirExists
                  /\ serverDir' = u.dir
                  /\ keys' = u.ks
                  /\ cached' = cached
                  /\ fs0' = IF u.res.ok /\ ~DirHas(serverDir, SERVER_KEYS)
                            THEN "fresh" ELSE fs0
    /\ individual_mods' = <<>>
    /\ collection_mods' = <<>>
    /\ next' = 1
    /\ failed_mods' = <<>>
    /\ result' = NoResult
    /\ summary' = <<>>
    /\ attempts' = <<>>
    /\ stuck' = [dir |-> {}, keys |-> {}]
    /\ keys0' = {}
    /\ cell0' = collection_mod_list
    /\ lastFetch' = NoFetch
    /\ serverArgs' = <<>>
    /\ serverResult' = "none"
    /\ UNCHANGED <<offline, server_mod_list, mod_collection_url, prev, steamVars,
                   steamcmd_manager, pc, cellVars>>

(***************************************************************************)
(* SteamCmdManager::check_and_install, as a state machine of its own: the  *)
(* SteamCMD directory a process finds, the calls of check_and_install, and *)
(* the operator who empties the directory when a call asked for it.        *)
(***************************************************************************)
\* the files a SteamCMD directory may hold besides steamcmd.exe
OtherSteamCmdFiles == { <<"readme", "txt">>, <<"steamcmd", "log">>, <<"steamapps">> }

\* the SteamCMD directories a process may find
SteamCmdDirs ==
    {[exists |-> FALSE, entries |-> {}]}
    \cup {[exists |-> TRUE, entries |-> e] :
             e \in SUBSET ({STEAMCMD_EXE} \cup OtherSteamCmdFiles)}

CheckEnvs ==
    [createFault : BOOLEAN, readFault : BOOLEAN, answer : PromptAnswers,
     net : ZipAnswers, extractFault : 0..2]

SteamCmdInit ==
    /\ ServerInit
    /\ ~offline
    /\ server_mod_list = None
    /\ mod_collection_url = None
    /\ fs0 = "fresh"
    /\ steamcmd_dir \in SteamCmdDirs
    /\ lastCheck = NoCheck

CheckAndInstall ==
    /\ calls < MaxCalls
    /\ calls' = calls + 1
    /\ \E env \in CheckEnvs :
          \E r \in {check_and_install(steamcmd_dir, env)} :
             /\ steamcmd_dir' = r.dir
             /\ lastCheck' = [called |-> TRUE, res |-> r.res, prompted |-> r.prompted,
                              downloaded |-> r.downloaded,
                              answer |-> IF r.prompted THEN env.answer ELSE "none",
                              before |-> steamcmd_dir]
    /\ UNCHANGED <<config, prev, steamcmd_manager, fsVars, runVars, cellVars, lastFetch,
                   serverArgs, serverResult, serverUpdate, faults>>

\* "Please clear the directory or choose a different path in config.toml"
EmptySteamCmdDir ==
    /\ lastCheck.called
    /\ lastCheck.res.err = "NotEmpty"
    /\ \E keep \in SUBSET steamcmd_dir.entries :
          /\ keep # steamcmd_dir.entries
          /\ steamcmd_dir' = [steamcmd_dir EXCEPT !.entries = keep]
    /\ lastCheck' = NoCheck
    /\ UNCHANGED <<config, prev, steamcmd_manager, fsVars, runVars, cellVars, lastFetch,
                   serverArgs, serverResult, serverUpdate, faults, calls>>

SteamCmdNext ==
    \/ CheckAndInstall
    \/ EmptySteamCmdDir

SteamCmdSpec == SteamCmdInit /\ [][SteamCmdNext]_vars

Next ==
    \/ SetupSteamcmd
    \/ Clear
    \/ Resolve
    \/ InstallIndividual
    \/ InstallCollection
    \/ Report
    \/ RunServer
    \/ InstallOrUpdateServer

Spec == Init /\ [][Next]_vars

\* every call made during a run returns: a run that has started takes its
\* next step
FairSpec ==
    /\ Spec
    /\ WF_vars(Resolve)
    /\ WF_vars(InstallIndividual)
    /\ WF_vars(InstallCollection)
    /\ WF_vars(Report)

(***************************************************************************)
(* Properties.                                                             *)
(***************************************************************************)
AllEntries == individual_mods \o collection_mods

\* install_or_update_mods has returned
RunEnded == pc = "idle" /\ result.state # "none"

Succeeded(a) == a.err = "none"

\* the names of the failed attempts, in attempt order
FailedNames(att) ==
    LET f == SelectSeq(att, LAMBDA a : ~Succeeded(a))
    IN [i \in DOMAIN f |-> f[i].entry.name]

\* the activation link of a mod entry
LinkOf(e) == DirEntry(<<"@">> \o e.name, "link", e.id)

\* C1: install-each does not short-circuit: when a run has ended, every
\* entry of the individual list and then of the collection list has been
\* attempted, whatever failed before it; the activation link of every entry
\* that did not fail is in place; the failure list holds exactly the names of
\* the entries that failed.
C1_NonShortCircuit ==
    RunEnded =>
        /\ Len(attempts) = Len(AllEntries)
        /\ \A i \in DOMAIN attempts :
              /\ attempts[i].entry = AllEntries[i]
              /\ Succeeded(attempts[i]) => LinkOf(attempts[i].entry) \in serverDir
        /\ failed_mods = FailedNames(attempts)

\* mod #2 of 3 fails, #1 and #3 (a collection entry) are installed
C1_Witness ==
    /\ RunEnded
    /\ Len(individual_mods) = 2
    /\ Len(attempts) = 3
    /\ Succeeded(attempts[1])
    /\ ~Succeeded(attempts[2])
    /\ Succeeded(attempts[3])
    /\ failed_mods = <<attempts[2].entry.name>>
    /\ LinkOf(attempts[3].entry) \in serverDir

\* C2: the run returns success exactly when no install_mod call failed;
\* nothing is returned while entries are pending, and the error is returned
\* after every entry of both lists has been attempted.
C2_SuccessIffNoFailure ==
    /\ pc # "idle" => result.state = "none"
    /\ RunEnded =>
          /\ (result.state = "ok") <=> (\A i \in DOMAIN attempts : Succeeded(attempts[i]))
          /\ result.state = "err" =>
                /\ Len(attempts) = Len(AllEntries)
                /\ \E i \in DOMAIN attempts : ~Succeeded(attempts[i])

\* the first entry fails, a later one is installed, the run returns the error
C2_Witness ==
    /\ RunEnded
    /\ result.state = "err"
    /\ Len(attempts) >= 2
    /\ ~Succeeded(attempts[1])
    /\ Succeeded(attempts[Len(attempts)])

AtEntries(dir) == {e \in dir : StartsWithAt(e.name)}

\* the files of the keys directory other than the reserved key file
OtherKeyFiles(ks) ==
    {k \in ks : k.kind # "dir" /\ to_lowercase(k.name) # RESERVED_KEY}

\* no mod is configured, neither individually nor by a collection
NoModsConfigured ==
    /\ get_individual_mods(server_mod_list) = <<>>
    /\ ~mod_collection_url.some

\* C4 as claimed: Clear runs at the start of every run and after it no '@'
\* entry remains in the install directory and no file other than the reserved
\* key file remains in the keys directory.
C4_ClearRemovesAll ==
    pc = "resolve" => AtEntries(serverDir) = {} /\ OtherKeyFiles(keys) = {}

\* C4, amended: a run starts with Clear, whatever the number of configured
\* mods, and after Clear the only '@' entries left in the install directory
\* and the only files left in the keys directory besides the reserved key
\* file are those whose removal the file system refused; Clear discards the
\* refusal and the run goes on.
C4_ClearRemovesUnlessRefused ==
    /\ pc = "resolve" =>
          /\ AtEntries(serverDir) = stuck.dir
          /\ OtherKeyFiles(keys) = stuck.keys
          /\ keys0 = keys
          /\ result.state = "none"
    /\ (RunEnded /\ attempts = <<>>) =>
          /\ AtEntries(serverDir) = stuck.dir
          /\ OtherKeyFiles(keys) = stuck.keys

\* no mod is configured, the install directory held two links and three key
\* files of an earlier run: Clear has removed them but for one key file
C4_Witness ==
    /\ pc = "resolve"
    /\ fs0 = "stale"
    /\ calls = 1
    /\ NoModsConfigured
    /\ AtEntries(serverDir) = {}
    /\ Cardinality(stuck.keys) = 1
    /\ OtherKeyFiles(keys) = stuck.keys

\* the entries of a keys directory that bear the reserved name
ReservedIn(ks) == {k \in ks : to_lowercase(k.name) = RESERVED_KEY}

\* C5: the reserved key file (dayz.bikey in any spelling) is never touched:
\* whatever Clear and the installations did, the entry the process found
\* under that name is in the keys directory as it was, and it is the only
\* entry of that name, also when an installed mod ships a key of that name.
C5_ReservedKeyUntouched ==
    ReservedIn(InitKeys(fs0)) # {} => ReservedIn(keys) = ReservedIn(InitKeys(fs0))

\* the reserved file is spelled DayZ.bikey, Clear has run, and a mod whose
\* package ships dayz.bikey has been installed with its other keys
C5_Witness ==
    /\ fs0 = "stale"
    /\ RunEnded
    /\ \E i \in DOMAIN attempts :
          /\ Succeeded(attempts[i])
          /\ attempts[i].package
          /\ PkgKeysDir(attempts[i].entry.id).some
          /\ Contains(PkgKeysDir(attempts[i].entry.id).val, RESERVED_KEY)
          /\ attempts[i].wrote # {}
    /\ ReservedIn(keys) = {KeyEntry(<<"DayZ", "bikey">>, "file", 0)}

\* C6 as claimed: single-mod installation is idempotent: of two calls in a
\* row for the same mod (no Clear in between), the file system refusing
\* nothing and every download succeeding, the second succeeds when the first
\* did, and it leaves the activation link as it is.
C6_InstallIdempotent ==
    faults = 0 =>
        \A i \in DOMAIN attempts :
            (/\ i + 1 \in DOMAIN attempts
             /\ attempts[i + 1].entry = attempts[i].entry
             /\ Succeeded(attempts[i]))
            => /\ Succeeded(attempts[i + 1])
               /\ ~attempts[i + 1].linked

\* the key files an attempt found in its package: those of <package>/keys
\* when the attempt came to read it
Ships(a) ==
    IF a.err \in {"none", "KeyLink"} /\ a.package /\ PkgKeysDir(a.entry.id).some
    THEN {f \in Range(PkgKeysDir(a.entry.id).val) : IsBikey(f)}
    ELSE {}

\* the entries of a keys directory under the name of f
KeyNamed(ks, f) == {k \in ks : to_lowercase(k.name) = to_lowercase(f)}

\* two attempts of the run, the first of them installed, and a key name
\* both packages ship
SharedKeys ==
    UNION {{[i |-> p[1], j |-> p[2], f |-> f] :
               f \in {h \in Ships(attempts[p[1]]) :
                        \E g \in Ships(attempts[p[2]]) :
                            to_lowercase(g) = to_lowercase(h)}} :
           p \in {q \in (DOMAIN attempts) \X (DOMAIN attempts) :
                    q[1] < q[2] /\ Succeeded(attempts[q[1]])}}

\* the attempts before the i-th that ship a key under the name of f
EarlierShippers(i, f) ==
    {t \in 1..(i - 1) : \E g \in Ships(attempts[t]) :
                            to_lowercase(g) = to_lowercase(f)}

\* C7 as claimed: when two mods installed in one run ship a key file of the
\* same name, the keys directory holds exactly one entry of that name, it is
\* the key of the mod processed first, and the second installation does not
\* fail because of it.
C7_FirstWriterWins ==
    \A x \in SharedKeys :
        EarlierShippers(x.i, x.f) = {} =>
            /\ KeyNamed(keys, x.f)
                  = {KeyEntry(x.f, "link", attempts[x.i].entry.id)}
            /\ attempts[x.j].err = "KeyLink" => attempts[x.j].keyRefused

\* C7, amended: key mirroring never replaces an entry: when two mods
\* installed in one run ship a key file of the same name, the keys directory
\* holds exactly one entry of that name; it is the entry Clear left there
\* under that name (the reserved key file, or a file Clear could not remove)
\* when there was one, else the link to the key of the mod processed first;
\* the second installation does not fail because of it.
C7_FirstEntryWins ==
    \A x \in SharedKeys :
        EarlierShippers(x.i, x.f) = {} =>
            /\ KeyNamed(keys, x.f)
                  = IF KeyNamed(keys0, x.f) # {}
                    THEN KeyNamed(keys0, x.f)
                    ELSE {KeyEntry(x.f, "link", attempts[x.i].entry.id)}
            /\ Cardinality(KeyNamed(keys, x.f)) = 1
            /\ attempts[x.j].err = "KeyLink" => attempts[x.j].keyRefused

\* two mods with different packages that both ship k.bikey are installed:
\* the one entry k.bikey links to the key of the first
C7_Witness ==
    /\ RunEnded
    /\ \E x \in SharedKeys :
          /\ x.f = <<"k", "bikey">>
          /\ attempts[x.i].entry.id # attempts[x.j].entry.id
          /\ Succeeded(attempts[x.j])
          /\ KeyNamed(keys0, x.f) = {}
          /\ KeyNamed(keys, x.f) = {KeyEntry(x.f, "link", attempts[x.i].entry.id)}
          /\ attempts[x.j].wrote # {}

\* the fetch of this call failed
FetchFailed == ~lastFetch.res.ok

\* C8: a collection fetch that fails, whatever the cause, gives the empty
\* collection list and no error: the list is remembered as empty, the
\* individually configured mods are all attempted and no others, and the
\* result of the run is that of their installations.
C8_FetchFailureIsEmptyList ==
    (FetchFailed /\ pc # "resolve") =>
        /\ lastFetch.res.err \in {"InvalidUrl", "Curl", "Http", "Utf8",
                                  "NotCollection", "NoWorkshopItems"}
        /\ lastRead = Some(<<>>)
        /\ collection_mod_list = Some(<<>>)
        /\ serverResult = "none" =>
              /\ collection_mods = <<>>
              /\ individual_mods = get_individual_mods(server_mod_list)
              /\ pc = "idle" => result.state # "none"
              /\ RunEnded =>
                    /\ [i \in DOMAIN attempts |-> attempts[i].entry]
                          = get_individual_mods(server_mod_list)
                    /\ (result.state = "ok")
                          <=> \A i \in DOMAIN attempts : Succeeded(attempts[i])

\* the collection page has no workshop item; the two individually
\* configured mods are installed and the run succeeds
C8_Witness ==
    /\ RunEnded
    /\ FetchFailed
    /\ lastFetch.res.err = "NoWorkshopItems"
    /\ Len(attempts) = 2
    /\ result.state = "ok"

\* no URL is configured, or a blank one
NoUrl == ~mod_collection_url.some \/ Trim(mod_collection_url.val) = <<>>

\* C9: in one process the collection fetcher is called at most once over
\* all reads of the collection list (by install_or_update_mods and by
\* run_server, in any order), also when the first fetch failed; it is never
\* called when no URL is configured or the URL is blank; every read returns
\* the list the first read returned.
C9_FetchAtMostOnce ==
    /\ fetchCalls <= 1
    /\ pageDownloads <= fetchCalls
    /\ NoUrl => fetchCalls = 0
    /\ firstRead.some => lastRead = firstRead

\* the first read fetched and the fetch failed; a second read has returned
\* the same empty list without fetching
C9_Witness ==
    /\ calls = 2
    /\ pc = "idle"
    /\ ~NoUrl
    /\ fetchCalls = 1
    /\ lastFetch = NoFetch
    /\ firstRead = Some(<<>>)
    /\ lastRead = Some(<<>>)

\* C10: in offline mode, with the download service set up, an installation
\* never calls the download tool; when the package is not in the cache it
\* fails with the not-found-locally error, creates no activation link and
\* writes no key; when the package is in the cache it goes on to the link
\* step.
C10_OfflineNeverDownloads ==
    offline =>
        \A i \in DOMAIN attempts :
            LET a == attempts[i] IN
            a.err # "NotSetup" =>
                /\ ~a.downloaded
                /\ ~a.present => /\ a.err = "NotFoundLocally"
                                 /\ ~a.linked
                                 /\ a.wrote = {}
                /\ a.present => /\ a.err \in {"none", "Link", "KeysRead", "KeyLink"}
                                /\ a.err # "Link" => a.linked

\* an offline run: one package is missing, one is there and gets installed
C10_Witness ==
    /\ offline
    /\ RunEnded
    /\ \E i, j \in DOMAIN attempts :
          /\ ~attempts[i].present
          /\ attempts[i].err = "NotFoundLocally"
          /\ attempts[j].present
          /\ Succeeded(attempts[j])
          /\ attempts[j].linked
          /\ ~attempts[j].downloaded

\* C11 as claimed: with the offline toggle set no operation makes a network
\* call: install_or_update_server does not call the download tool, no
\* install_mod call does, and no collection page is downloaded when the
\* collection list is read.
C11_OfflineNoNetwork ==
    offline =>
        /\ serverUpdate \notin {"ok", "Update"}
        /\ \A i \in DOMAIN attempts : ~attempts[i].downloaded
        /\ pageDownloads = 0

\* the arguments of the argument vector that begin with a flag
FlagArgs(args, flag) ==
    {i \in DOMAIN args : args[i] # <<>> /\ Head(args[i]) = flag}

\* the value of a flag of the argument vector
FlagValue(args, flag) ==
    IF FlagArgs(args, flag) = {} THEN None
    ELSE Some(Tail(args[CHOOSE i \in FlagArgs(args, flag) : TRUE]))

\* the flag is absent when the list is empty; else it occurs once and its
\* value is one token '@' + name per entry of the list, in the order of the
\* list, separated by ';'
Rendered(args, flag, list) ==
    IF list = <<>> THEN FlagArgs(args, flag) = {}
    ELSE /\ Cardinality(FlagArgs(args, flag)) = 1
         /\ LET tokens == Split(FlagValue(args, flag).val, ";") IN
            /\ Len(tokens) = Len(list)
            /\ \A i \in DOMAIN list : tokens[i] = <<"@">> \o list[i].name

\* run_server has built the argument vector and run the server
ServerRan == serverResult \in ServerExits

NonEmptyLists(ind, col) ==
    (IF ind = <<>> THEN 0 ELSE 1) + (IF col = <<>> THEN 0 ELSE 1)

\* C12: the launch arguments hold, for the list of N individually configured
\* mods and for the list of M collection mods, one flag each whose value is
\* N (resp. M) tokens joined by ';', each '@' followed by the name, in the
\* order of the list; an empty list has no flag; the arguments are determined
\* by the two lists alone, so every call with the same lists gives the same.
C12_FlagsRenderLists ==
    ServerRan =>
        LET ind == get_individual_mods(server_mod_list)
            col == lastRead.val
        IN /\ \/ /\ Rendered(serverArgs, "-mod=", ind)
                 /\ Rendered(serverArgs, "-serverMod=", col)
              \/ /\ Rendered(serverArgs, "-mod=", col)
                 /\ Rendered(serverArgs, "-serverMod=", ind)
           /\ Len(serverArgs) = 2 + NonEmptyLists(ind, col)
           /\ serverArgs[1] = <<"-config=">> \o SERVER_CONFIG
           /\ serverArgs[2] = <<"-profiles=">> \o SERVER_PROFILES

\* the server has run with two individually configured and two collection
\* mods, in the second call of the process
C12_Witness ==
    /\ ServerRan
    /\ calls = 2
    /\ Len(get_individual_mods(server_mod_list)) = 2
    /\ Len(lastRead.val) = 2
    /\ Len(serverArgs) = 4
    /\ Len(Split(FlagValue(serverArgs, "-mod=").val, ";")) = 2

\* C13 as claimed: the individually configured mods are rendered under -mod
\* and the collection mods under -serverMod.
C13_IndividualUnderMod ==
    ServerRan =>
        /\ Rendered(serverArgs, "-mod=", get_individual_mods(server_mod_list))
        /\ Rendered(serverArgs, "-serverMod=", lastRead.val)

\* C13, amended: the collection mods are rendered under the first mod flag,
\* -mod, and the individually configured mods (server_mod_list) under the
\* second, -serverMod; a flag holds the entries of its own list and no others.
C13_CollectionUnderMod ==
    ServerRan =>
        /\ Rendered(serverArgs, "-mod=", lastRead.val)
        /\ Rendered(serverArgs, "-serverMod=", get_individual_mods(server_mod_list))
        /\ \A i, j \in DOMAIN serverArgs :
              (Head(serverArgs[i]) = "-mod=" /\ Head(serverArgs[j]) = "-serverMod=")
                  => i < j

\* the server has run with an individually configured mod that is not in the
\* collection and a collection mod that is not configured individually
C13_Witness ==
    /\ ServerRan
    /\ get_individual_mods(server_mod_list) = <<ModA>>
    /\ lastRead.val = <<ModC>>
    /\ FlagValue(serverArgs, "-mod=") = Some(<<"@", "C">>)
    /\ FlagValue(serverArgs, "-serverMod=") = Some(<<"@", "A">>)

\* anyhow!("SteamCMD has not been setup yet.")
NOT_SETUP == <<"SteamCMD has not been setup yet.">>

\* C14 as claimed: when the download collaborator has not been set up, a
\* run that has mods to install halts with a setup error before any mod is
\* attempted; no other error halts the run early.
C14_SetupErrorHalts ==
    /\ ((pc = "install" \/ RunEnded) /\ AllEntries # <<>>) =>
          IF ~steamcmd_manager
          THEN /\ attempts = <<>>
               /\ pc = "idle" => result = RunErr(NOT_SETUP)
          ELSE Len(attempts) = next - 1
    /\ (RunEnded /\ steamcmd_manager) => Len(attempts) = Len(AllEntries)

\* C15 as claimed: after the download tool has reported success the package
\* path is verified to exist before the activation link is created; when it
\* does not exist the installation fails with an integrity error and creates
\* no activation link.
C15_PathVerifiedAfterDownload ==
    \A i \in DOMAIN attempts :
        LET a == attempts[i] IN
        (a.downloaded /\ a.err # "Download" /\ ~a.package)
            => a.err = "Integrity" /\ ~a.linked

\* the last install_mod call of the run failed
LastAttemptFailed(att) == att # <<>> /\ ~Succeeded(att[Len(att)])

\* C16: a failing installation leaves the mods installed before it in this
\* run as they are: over the step of an install_mod call that fails, every
\* activation link and every key that an earlier successful call created is
\* still there, unchanged; the step removes and changes no entry at all.
C16_FailureLeavesInstalled ==
    [][(Len(attempts') = Len(attempts) + 1 /\ LastAttemptFailed(attempts'))
        => /\ \A i \in DOMAIN attempts :
                 Succeeded(attempts[i]) =>
                    /\ LinkOf(attempts[i].entry) \in serverDir'
                    /\ attempts[i].wrote \subseteq keys'
           /\ serverDir \subseteq serverDir'
           /\ keys \subseteq keys'
           /\ cached \subseteq cached']_vars

\* a mod was installed with its keys, then an installation failed: the link
\* and the keys of the first are in place
C16_Witness ==
    /\ Len(attempts) >= 2
    /\ Succeeded(attempts[1])
    /\ attempts[1].wrote # {}
    /\ LastAttemptFailed(attempts)
    /\ attempts[Len(attempts)].err \in {"Link", "KeyLink", "KeysRead"}
    /\ LinkOf(attempts[1].entry) \in serverDir
    /\ attempts[1].wrote \subseteq keys

\* C17: when the individual list and the collection list are both empty the
\* run returns success right after Clear: it does not enter the loops, no
\* install_mod call is made, the download tool is not called, and no
\* activation link and no key is created.
C17_EmptyListsSucceedAtOnce ==
    /\ pc = "install" => AllEntries # <<>>
    /\ (RunEnded /\ AllEntries = <<>>) =>
          /\ result = RunOk
          /\ attempts = <<>>
          /\ summary = <<>>
          /\ next = 1
          /\ keys = keys0
          /\ AtEntries(serverDir) = stuck.dir

\* no mod is configured individually and the fetch of the collection
\* failed; Clear has removed the links of an earlier run; the run succeeded
C17_Witness ==
    /\ RunEnded
    /\ AllEntries = <<>>
    /\ FetchFailed
    /\ fs0 = "stale"
    /\ calls = 1
    /\ result = RunOk
    /\ AtEntries(serverDir) = {}

\* the activation links of the entries of a list
LinksOf(list) == {LinkOf(list[i]) : i \in DOMAIN list}

\* the names of a set of directory entries
EntryNames(entries) == {e.name : e \in entries}

\* C18 as claimed: at the end of a run every '@' entry of the install
\* directory is the link of a mod of the desired set, and after a run that
\* returned success the '@' entries are exactly the links of the desired set.
C18_LinksAreDesiredSet ==
    RunEnded =>
        /\ EntryNames(AtEntries(serverDir)) \subseteq EntryNames(LinksOf(AllEntries))
        /\ result = RunOk =>
              EntryNames(AtEntries(serverDir)) = EntryNames(LinksOf(AllEntries))

\* C18, amended: during and at the end of a run every '@' entry of the
\* install directory, but for those Clear could not remove, is the link of a
\* mod of the desired set, created in this run; after a run that returned
\* success these entries are exactly the links of the desired set.
C18_LinksAreDesiredOrStuck ==
    (pc = "install" \/ RunEnded) =>
        /\ \A e \in AtEntries(serverDir) \ stuck.dir :
              \E i \in DOMAIN attempts :
                  e = LinkOf(attempts[i].entry) /\ attempts[i].linked
        /\ AtEntries(serverDir) \ stuck.dir \subseteq LinksOf(AllEntries)
        /\ (RunEnded /\ result = RunOk) =>
              /\ LinksOf(AllEntries) \subseteq AtEntries(serverDir)
              /\ stuck.dir \cap LinksOf(AllEntries) = {}

\* the install directory held the links of A and of a mod since dropped; the
\* desired set is B alone; after the run the only link is the one of B
C18_Witness ==
    /\ fs0 = "stale"
    /\ RunEnded
    /\ result = RunOk
    /\ AllEntries = <<ModB>>
    /\ AtEntries(serverDir) = {LinkOf(ModB)}

\* the names of a set of keys-directory entries, as the file system compares
\* them
KeyNames(ks) == {to_lowercase(k.name) : k \in ks}

\* the names of the key files the attempts of the run found in their packages
ShippedNames(att) ==
    {to_lowercase(f) : f \in UNION {Ships(att[i]) : i \in DOMAIN att}}

ConfiguredList == IF server_mod_list.some THEN server_mod_list.val ELSE <<>>

\* a name occurs twice in a list
DupNames(list) ==
    \E i, j \in DOMAIN list : i < j /\ list[i].name = list[j].name

\* C20: a mod name that occurs twice in the desired set (twice in one list,
\* or once in each) is not deduplicated and makes the run fail: the resolved
\* lists are the configured list and the collection list as read, every
\* occurrence is attempted, the run does not return success, and the launch
\* flags hold every occurrence.
C20_DuplicateNameFailsRun ==
    /\ (pc = "install" \/ RunEnded) =>
          /\ individual_mods = ConfiguredList
          /\ collection_mods = lastRead.val
    /\ (RunEnded /\ DupNames(ConfiguredList \o lastRead.val)) =>
          /\ result.state = "err"
          /\ Len(attempts) = Len(ConfiguredList) + Len(lastRead.val)
          /\ \A i, j \in DOMAIN attempts :
                (i < j /\ attempts[i].entry.name = attempts[j].entry.name)
                    => ~(Succeeded(attempts[i]) /\ Succeeded(attempts[j]))
    /\ (ServerRan /\ DupNames(ConfiguredList \o lastRead.val)) =>
          /\ Rendered(serverArgs, "-serverMod=", ConfiguredList)
          /\ Rendered(serverArgs, "-mod=", lastRead.val)

\* B is configured individually and listed by the collection: the first
\* occurrence is installed, the second fails on the link, the run fails
C20_Witness ==
    /\ RunEnded
    /\ individual_mods = <<ModB>>
    /\ Len(collection_mods) = 2
    /\ DupNames(AllEntries)
    /\ result.state = "err"
    /\ Succeeded(attempts[1])
    /\ attempts[2].err = "Link"
    /\ failed_mods = <<ModB.name>>

\* C21 as claimed: the desired set, with the collection fetch, is resolved
\* before Clear removes anything: once Clear has run with a collection URL
\* configured, the individual list has been read and the collection list is
\* in its cell.
C21_ResolveBeforeClear ==
    (pc = "resolve" /\ ~NoUrl) =>
        /\ individual_mods = ConfiguredList
        /\ collection_mod_list.some

\* C21, amended: the steps of a run occur in the order clear, resolve,
\* install.  When Clear has completed neither list has been read in this run
\* and no fetch was made since the run started; the lists are read, and the
\* collection fetched if its cell is still empty, after that; when the first
\* installation starts both lists are resolved and the install directory and
\* the keys directory are as Clear left them.
C21_ClearResolveInstall ==
    /\ pc = "resolve" =>
          /\ individual_mods = <<>>
          /\ collection_mods = <<>>
          /\ collection_mod_list = cell0
          /\ lastFetch = NoFetch
          /\ attempts = <<>>
    /\ pc = "install" =>
          /\ individual_mods = ConfiguredList
          /\ collection_mod_list = Some(collection_mods)
          /\ lastFetch.downloaded => cell0 = None
          /\ attempts = <<>> =>
                /\ next = 1
                /\ keys = keys0
                /\ AtEntries(serverDir) = stuck.dir

\* the links of an earlier run are gone, the collection page was then
\* downloaded and lists a mod, and no installation has started yet
C21_Witness ==
    /\ pc = "install"
    /\ attempts = <<>>
    /\ fs0 = "stale"
    /\ calls = 1
    /\ cell0 = None
    /\ lastFetch.downloaded
    /\ collection_mods # <<>>
    /\ AtEntries(serverDir) = {}

\* the attempts made so far are those of the first entries of the individual
\* list followed by the collection list, one attempt per entry, and the
\* failure list names the failed ones in that order
AttemptedInOrder ==
    /\ individual_mods = ConfiguredList
    /\ collection_mods = lastRead.val
    /\ Len(attempts) = next - 1
    /\ Len(attempts) <= Len(AllEntries)
    /\ \A i \in DOMAIN attempts : attempts[i].entry = AllEntries[i]
    /\ failed_mods = FailedNames(attempts)

\* C22: each entry of the desired set is attempted exactly once per run, one
\* at a time, the individual entries in configuration order and then the
\* collection entries in collection order; the failure list is in attempt
\* order; a run that has entered the loops ends, every call returning, after
\* N + M attempts.
C22_EachOnceInOrder ==
    /\ []((pc = "install" \/ RunEnded) => AttemptedInOrder)
    /\ []((RunEnded /\ AllEntries # <<>>) => Len(attempts) = Len(AllEntries))
    /\ [][(pc = "install" /\ pc' = "install")
             => /\ Len(attempts') = Len(attempts) + 1
                /\ SubSeq(attempts', 1, Len(attempts)) = attempts
                /\ next' = next + 1]_vars
    /\ (pc = "install") ~> (RunEnded /\ Len(attempts) = Len(AllEntries))

\* two individual and two collection entries were attempted in order; the
\* first and the third failed and the failure list names them in that order
C22_Witness ==
    /\ RunEnded
    /\ Len(individual_mods) = 2
    /\ Len(collection_mods) = 2
    /\ Len(attempts) = 4
    /\ ~Succeeded(attempts[1])
    /\ Succeeded(attempts[2])
    /\ ~Succeeded(attempts[3])
    /\ Len(failed_mods) >= 2
    /\ failed_mods[1] = attempts[1].entry.name
    /\ failed_mods[2] = attempts[3].entry.name

\* Clear met a missing directory or a removal that was refused
ClearHindered ==
    \/ ~installDirExists
    \/ ~DirHas(serverDir, SERVER_KEYS)
    \/ stuck.dir # {}
    \/ stuck.keys # {}

\* C23: Clear is best-effort: with the install directory or the keys
\* directory missing, or a removal refused, Clear still returns nothing and
\* the run goes on: every other entry it was to remove is removed, no result
\* is set by it, the lists are then read, every entry is attempted, and the
\* result of the run is that of the installations alone.
C23_ClearIsBestEffort ==
    /\ (pc = "resolve" /\ ClearHindered) =>
          /\ result = NoResult
          /\ summary = <<>>
          /\ ClearTargetsDir(installDirExists, serverDir) = stuck.dir
          /\ ClearTargetsKeys(serverDir, keys) = stuck.keys
    /\ (RunEnded /\ ClearHindered) =>
          /\ Len(attempts) = Len(AllEntries)
          /\ result = ReportResult(FailedNames(attempts))
          /\ AllEntries = <<>> => result = RunOk
          /\ result.state = "err" => result.msg = SOME_MODS_FAILED

\* the removal of the link of a dropped mod was refused; the other link was
\* removed, the mods of the desired set were installed and the run succeeded
C23_Witness ==
    /\ RunEnded
    /\ fs0 = "stale"
    /\ stuck.dir = {DirEntry(<<"@", "Old">>, "link", 9)}
    /\ attempts # <<>>
    /\ result = RunOk
    /\ AtEntries(serverDir) = stuck.dir \cup LinksOf(AllEntries)

\* the entries of <package>/keys of a package that is in the cache whose
\* name has the extension bikey in any spelling; none when the package has no
\* keys directory
BikeyEntries(id, cache) ==
    IF id \in cache /\ PkgKeysDir(id).some
    THEN {f \in Range(PkgKeysDir(id).val) :
             Len(f) >= 2 /\ to_lowercase(f)[Len(f)] = "bikey"}
    ELSE {}

\* the packages of the workshop
PackageIds == {ModA.id, ModB.id, ModC.id}

\* the bikey entries each package ships
OwnBikeys == [id \in PackageIds |-> BikeyEntries(id, {id})]

\* the names, in lower case, of the keys directory as the i-th attempt of the
\* run found it
NamesBefore(i) ==
    {to_lowercase(k.name) : k \in keys0 \cup UNION {attempts[j].wrote : j \in 1..(i - 1)}}

\* C24: the key mirroring of one mod mirrors exactly the entries of the
\* package's keys directory whose extension is bikey, in any spelling, each
\* under its own file name, and ignores every other entry: after a successful
\* installation every such name is in the server keys directory, what the
\* installation wrote is one link per such entry whose name was not there
\* already (C7), named as the entry is, and nothing else; an installation
\* that fails has written only such links; a package without a keys
\* directory is installed with nothing written to the server keys directory
\* and never fails on the keys.
C24_MirrorsExactlyBikeys ==
    \A i \in DOMAIN attempts :
        LET a == attempts[i] IN
        \A own \in {IF a.package THEN OwnBikeys[a.entry.id] ELSE {}},
           before \in {NamesBefore(i)} :
        \A due \in {{KeyEntry(f, "link", a.entry.id) :
                        f \in {g \in own : to_lowercase(g) \notin before}}} :
           /\ a.wrote \subseteq due
           /\ Succeeded(a) => /\ a.wrote = due
                              /\ \A f \in own : KeyNamed(keys, f) # {}
           /\ own = {} => a.err \notin {"KeyLink"}
           /\ (a.package /\ ~PkgKeysDir(a.entry.id).some) =>
                 /\ a.wrote = {}
                 /\ a.err \notin {"KeysRead", "KeyLink"}
                 /\ a.linked => Succeeded(a)

\* package 2 ships dayz.bikey, k.bikey and b.BIKEY: its two own keys were
\* mirrored under their names; package 3 has no keys directory and was
\* installed with nothing written
C24_Witness ==
    /\ RunEnded
    /\ \E i, j \in DOMAIN attempts :
          /\ attempts[i].entry = ModB
          /\ Succeeded(attempts[i])
          /\ attempts[i].wrote = {KeyEntry(<<"k", "bikey">>, "link", 2),
                                  KeyEntry(<<"b", "BIKEY">>, "link", 2)}
          /\ attempts[j].entry = ModC
          /\ Succeeded(attempts[j])
          /\ attempts[j].wrote = {}
    /\ KeyNames(keys) = {<<"dayz", "bikey">>, <<"k", "bikey">>, <<"b", "bikey">>}

\* get_collection_mods called the fetcher in the current call
Fetched == lastFetch # NoFetch

\* the list is what the <a> elements of the page give, in document order:
\* entry i comes from an element whose href carries its id and whose title,
\* trimmed, is its name, and the elements of later entries come later
RECURSIVE MatchFrom(_, _, _, _)
MatchFrom(list, i, links, from) ==
    \/ i > Len(list)
    \/ \E k \in from..Len(links) :
          /\ Contains(links[k].href, ToString(list[i].id))
          /\ links[k].title.some
          /\ Trim(links[k].title.val) = list[i].name
          /\ MatchFrom(list, i + 1, links, k + 1)

InPageOrder(list, links) == MatchFrom(list, 1, links, 1)

\* C25: fetch_collection_mods validates before it parses: with a URL that
\* lacks 'steamcommunity.com' or 'filedetails' it fails and downloads
\* nothing; a page is downloaded only for a valid URL; a downloaded page that
\* lacks the collection-children region or the workshop-item entry fails and
\* is not handed to the parser; the parser only sees pages with both markers;
\* every successful result is a non-empty list in page order whose entries
\* have a numeric id and a non-empty name.
C25_ValidatesBeforeParsing ==
    Fetched =>
        LET url == mod_collection_url.val
            valid == Contains(url, "steamcommunity.com") /\ Contains(url, "filedetails")
        IN /\ ~valid => /\ lastFetch.res.err = "InvalidUrl"
                        /\ ~lastFetch.downloaded
                        /\ ~lastFetch.parsed
                        /\ pageDownloads = 0
           /\ valid => lastFetch.downloaded
           /\ lastFetch.parsed => lastFetch.html.some
           /\ lastFetch.html.some =>
                 LET page == lastFetch.html.val IN
                 IF page.collectionChildren /\ page.workshopItem
                 THEN lastFetch.parsed
                 ELSE /\ ~lastFetch.parsed
                      /\ lastFetch.res.err = "NotCollection"
           /\ lastFetch.res.ok =>
                 /\ lastFetch.parsed
                 /\ lastFetch.res.val # <<>>
                 /\ InPageOrder(lastFetch.res.val, lastFetch.html.val.links)
                 /\ \A i \in DOMAIN lastFetch.res.val :
                       /\ lastFetch.res.val[i].id \in Nat
                       /\ lastFetch.res.val[i].name # <<>>
                       /\ lastFetch.res.val[i].name = Trim(lastFetch.res.val[i].name)

\* a page with both markers and five <a> elements, three of them without a
\* numeric id, a title or the workshop path, gave the two entries B and A
C25_Witness ==
    /\ Fetched
    /\ lastFetch.res.ok
    /\ Len(lastFetch.html.val.links) = 5
    /\ lastFetch.res.val = <<ModB, ModA>>

\* C26: check_and_install succeeds without prompting, downloading or
\* changing the directory when steamcmd.exe is there; when it is missing and
\* the directory holds an entry it fails before it prompts or downloads
\* (is_directory_empty is true exactly when the directory has no entry); when
\* the operator declines the prompt it fails without downloading.
C26_CheckAndInstall ==
    lastCheck.called =>
        LET before == lastCheck.before
            found == SteamCmdHas(before, STEAMCMD_EXE)
        IN /\ found => /\ lastCheck.res.ok
                       /\ ~lastCheck.prompted
                       /\ ~lastCheck.downloaded
                       /\ steamcmd_dir = before
           /\ (~found /\ before.entries # {}) =>
                 /\ lastCheck.res.err \in {"NotEmpty", "ReadDir"}
                 /\ ~lastCheck.prompted
                 /\ ~lastCheck.downloaded
                 /\ steamcmd_dir = before
           /\ lastCheck.res.err = "NotEmpty" <=>
                 (~found /\ before.entries # {} /\ lastCheck.res.err # "ReadDir")
           /\ lastCheck.prompted => ~found /\ before.entries = {}
           /\ lastCheck.answer = "no" =>
                 /\ lastCheck.res.err = "Declined"
                 /\ ~lastCheck.downloaded
                 /\ steamcmd_dir.entries = {}
           /\ lastCheck.downloaded => lastCheck.answer = "yes"

\* the first call found files but no steamcmd.exe and failed; the operator
\* emptied the directory; the second call prompted and was declined
C26_Witness ==
    /\ calls = 2
    /\ lastCheck.called
    /\ lastCheck.before = [exists |-> TRUE, entries |-> {}]
    /\ lastCheck.prompted
    /\ lastCheck.answer = "no"
    /\ lastCheck.res.err = "Declined"

(***************************************************************************)
(* C27.  Clear changes nothing outside its target.  Over every step of     *)
(* Clear: the entries of the install directory whose name does not begin   *)
(* with '@' (the server executable, the keys directory itself, the config  *)
(* and the profiles among them) are the same after the step as before it,  *)
(* no entry is added, the install directory is there or missing as before, *)
(* and the package cache, where the activation links point, is the same    *)
(* after the step as before it.                                            *)
(***************************************************************************)
NotAtEntries(dir) == {e \in dir : ~StartsWithAt(e.name)}

ClearStep == pc = "idle" /\ pc' = "resolve"

C27_ClearFrame ==
    [][ClearStep =>
          /\ NotAtEntries(serverDir') = NotAtEntries(serverDir)
          /\ serverDir' \subseteq serverDir
          /\ installDirExists' = installDirExists
          /\ DirHas(serverDir', SERVER_KEYS) = DirHas(serverDir, SERVER_KEYS)
          /\ cached' = cached]_vars

\* the first call of a process was Clear: it removed the links of the last
\* run, one of them to a package of the cache, and the package and the
\* entries of the server are where they were
C27_Witness ==
    /\ pc = "resolve"
    /\ calls = 1
    /\ fs0 = "stale"
    /\ DirEntry(<<"@", "A">>, "link", 1) \in InitServerDir(fs0) \ serverDir
    /\ AtEntries(serverDir) = {}
    /\ serverDir = BaseEntries
    /\ 1 \in cached

(***************************************************************************)
(* C28.  Single-mod installation is not atomic.  An attempt whose keys     *)
(* step failed (the keys directory of the package could not be read, or a  *)
(* key could not be linked) had created its activation link before: the    *)
(* mod is in the failure list, the run returns the error once it has       *)
(* ended, and the link and the keys the attempt had mirrored before the    *)
(* failing one are in place for as long as the history of the run is kept; *)
(* no step other than Clear removes an activation link or a key.           *)
(***************************************************************************)
KeysStepFailed(a) == a.err \in {"KeysRead", "KeyLink"}

C28_InstallNotAtomic ==
    /\ [](\A i \in DOMAIN attempts :
            KeysStepFailed(attempts[i]) =>
               /\ attempts[i].linked
               /\ LinkOf(attempts[i].entry) \in serverDir
               /\ attempts[i].wrote \subseteq keys
               /\ \E j \in DOMAIN failed_mods : failed_mods[j] = attempts[i].entry.name
               /\ RunEnded => result = RunErr(SOME_MODS_FAILED))
    /\ [][~ClearStep => /\ AtEntries(serverDir) \subseteq serverDir'
                        /\ keys \subseteq keys']_vars

\* the run has ended with the error; the second key of a mod could not be
\* linked, its link and its first key are there
C28_Witness ==
    /\ RunEnded
    /\ result.state = "err"
    /\ \E i \in DOMAIN attempts :
          /\ attempts[i].err = "KeyLink"
          /\ attempts[i].keyRefused
          /\ attempts[i].wrote # {}
          /\ attempts[i].wrote \subseteq keys
          /\ LinkOf(attempts[i].entry) \in serverDir

\* C29 as claimed: a run whose collection fetch failed and in which no
\* individual mod failed returns success, and no activation link and no key
\* of an earlier run is left.
C29_FailedFetchRemovesAll ==
    (RunEnded /\ FetchFailed /\ \A i \in DOMAIN attempts : Succeeded(attempts[i])) =>
        /\ result = RunOk
        /\ AtEntries(serverDir) \subseteq {LinkOf(attempts[i].entry) : i \in DOMAIN attempts}
        /\ OtherKeyFiles(keys) \subseteq UNION {attempts[i].wrote : i \in DOMAIN attempts}

(***************************************************************************)
(* C29, amended.  Clear runs before the collection list is first read:     *)
(* when the list is about to be read, no fetch was made in this run and    *)
(* the links and key files of earlier runs are gone but for those whose    *)
(* removal the file system refused.  A run whose collection fetch fails    *)
(* goes on with the empty collection list: every attempt is for an         *)
(* individually configured mod, the only '@' entries and key files beside  *)
(* those of its own attempts are the ones Clear could not remove, and it   *)
(* returns success exactly when no individual mod fails; with no           *)
(* individual mod configured it returns success without an attempt.        *)
(***************************************************************************)
C29_FailedFetchClearsCollection ==
    /\ pc = "resolve" =>
          /\ ~Fetched
          /\ AtEntries(serverDir) = stuck.dir
          /\ OtherKeyFiles(keys) = stuck.keys
    /\ (FetchFailed /\ (pc = "install" \/ RunEnded)) =>
          /\ collection_mods = <<>>
          /\ collection_mod_list = Some(<<>>)
          /\ \A i \in DOMAIN attempts : attempts[i].entry = ConfiguredList[i]
          /\ AtEntries(serverDir) \subseteq
                stuck.dir \cup {LinkOf(attempts[i].entry) : i \in DOMAIN attempts}
          /\ OtherKeyFiles(keys) \subseteq
                stuck.keys \cup UNION {attempts[i].wrote : i \in DOMAIN attempts}
    /\ (FetchFailed /\ RunEnded) =>
          /\ result = RunOk <=> \A i \in DOMAIN attempts : Succeeded(attempts[i])
          /\ ConfiguredList = <<>> => result = RunOk /\ attempts = <<>>

\* the first run of a process found the links and keys of an earlier run;
\* the fetch failed, the individually configured mods were installed, the run
\* returned success and the link and the key of the old mod are gone
C29_Witness ==
    /\ RunEnded
    /\ FetchFailed
    /\ fs0 = "stale"
    /\ calls = 1
    /\ result = RunOk
    /\ attempts # <<>>
    /\ DirEntry(<<"@", "Old">>, "link", 9) \notin serverDir
    /\ KeyEntry(<<"old", "bikey">>, "link", 9) \notin keys
    /\ AtEntries(serverDir) = {LinkOf(attempts[i].entry) : i \in DOMAIN attempts}

(***************************************************************************)
(* C30.  The whole run is idempotent.  A run that met no fault and         *)
(* returned success is followed at once by a second run, with the same     *)
(* configuration; the second run meets no fault either and the package     *)
(* cache is what the first run left: the second run returns success, and   *)
(* the activation links and the keys directory after it are those after    *)
(* the first run.  A run that meets no fault returns success when SteamCMD *)
(* was set up before it, the install directory and its keys directory      *)
(* exist, no name occurs twice in the lists and, offline, every package is *)
(* in the cache.                                                           *)
(***************************************************************************)
DistinctNames(list) ==
    \A i, j \in DOMAIN list :
        to_lowercase(list[i].name) = to_lowercase(list[j].name) => i = j

C30_RunIsIdempotent ==
    /\ (prev.some /\ RunEnded /\ faults = 0 /\ cached = prev.cached) =>
          /\ result = RunOk
          /\ AtEntries(serverDir) = prev.links
          /\ keys = prev.keys
    /\ (RunEnded /\ faults = 0 /\ installDirExists
          /\ (\A i \in DOMAIN attempts : attempts[i].err # "NotSetup")
          /\ DirHas(serverDir, SERVER_KEYS) /\ DistinctNames(AllEntries)
          /\ (offline => \A i \in DOMAIN AllEntries : AllEntries[i].id \in cached)) =>
          result = RunOk

\* the second of two runs has ended: both returned success, both installed
\* two mods, and the links and the keys are those of the first
C30_Witness ==
    /\ prev.some
    /\ RunEnded
    /\ calls = 2
    /\ faults = 0
    /\ result = RunOk
    /\ Len(attempts) = 2
    /\ cached = prev.cached
    /\ AtEntries(serverDir) = prev.links
    /\ Cardinality(prev.links) = 2
    /\ keys = prev.keys
    /\ \E k \in keys : k.kind = "link"

====
